---------------------------- MODULE Spec2Model ----------------------------
(***************************************************************************)
(* The agentic execution engine of BlueJay / Jarvis CLI (tools/agentic.js, *)
(* current revision src/unnamed/part_003): plan, per-step executor with    *)
(* clarification, outcome verifier, plan reviser and the controller loop.  *)
(*                                                                         *)
(* JavaScript objects are records whose DOMAIN is the set of properties    *)
(* the object has: an optional property that is unset is absent from the   *)
(* DOMAIN.  Texts are sequences of one-character strings.  Certainties are *)
(* counted in tenths (0.7 is 7).                                           *)
(***************************************************************************)
EXTENDS Integers, Sequences, FiniteSets, TLC

VARIABLES
    pc,            \* position of runAgenticTool / executeStep (the await it is suspended at)
    plan,          \* plan.steps
    results,       \* results: the RunRecords {step, result, verification}
    i,             \* loop index of runAgenticTool (0-based, as in the code)
    step,          \* the step parameter of the innermost executeStep call
    command,       \* local `command` of executeStep (line 156)
    confirm,       \* local `confirm` of executeStep (line 160)
    input,         \* what the user typed at the last prompt
    exited,        \* how the child process of the last command ended
    result,        \* local `result` of the loop body (line 630)
    verification,  \* the verification object being built by verifyStepResult
    newPlan,       \* local `newPlan` (line 647)
    ret,           \* the value runAgenticTool returned
    depth,         \* number of nested askForClarification calls of the current step
    replans,       \* number of createNewPlanAfterFailure calls of this run
    revisions,     \* number of plan validations that reported needsUpdate
    cmdRuns,       \* number of executeCommandPromise invocations of this run
    stepCalls,     \* number of executeStep calls made by the controller loop
    remainingArg,  \* the remainingSteps array a caller passes to validateRemainingPlan
    completion,    \* what the completion client gives for the plan-validation prompt
    returned,      \* the values validateRemainingPlan returned to that caller, in order
    parsedContent, \* JSON.parse(content) in createPlan / createNewPlanAfterFailure
    planFunction,  \* which of the two functions parsed it
    returnedPlan,  \* the plan that function returned, or what it threw
    textArg,       \* the text a caller passes to detectPlaceholders
    detection,     \* what detectPlaceholders returned to that caller
    runnerCommand, \* the command a caller passes to executeCommand of index.js
    childProcess,  \* the process executeCommand spawned and what it has captured
    settled,       \* how the promise executeCommand returned was settled
    mainPc,        \* the await main of index.js is at, in the terminal tool
    currentPreferences, \* local `currentPreferences` of main
    generated,     \* { isCommand, command } that isTerminalCommand returned
    shouldConfirm, \* local `shouldConfirm` of main: what the confirm prompt gave
    shouldExecute, \* local `shouldExecute` of main
    executedCommands, \* the commands main passed to executeCommand, in order
    logEntries,    \* what main passed to logger.log, in order
    interactions,  \* the interactions main gave to the context manager
    shellHistory,  \* the lines addToShellHistory appended to the history file
    contextPrefs,  \* the preferences every ContextManager is constructed with
    contextFile,   \* the context file of the terminal session, or NoObject
    clock,         \* minutes since the first invocation started
    ticks,         \* how often the clock advanced
    invocationPc,  \* where each invocation of main is with its context entry
    loadedContext, \* what getMessagesForAI's loadContext gave each invocation
    additions,     \* the requests addInteraction was called for, in order
    loggerPreferences, \* the preferences every Logger is constructed with
    logger,        \* the Logger of the running invocation, or NoObject
    today,         \* days since the first invocation
    days,          \* how often the day changed
    logFiles       \* the files of the log directory: kind and modification day

\* the state of runAgenticTool
controller == << pc, plan, results, i, step, command, confirm, input, exited, result,
                 verification, newPlan, ret, depth, replans, revisions, cmdRuns, stepCalls >>

\* the state of a caller of validateRemainingPlan on its own
caller == << remainingArg, completion, returned >>

\* the state of the plan-shape normalisation on its own
parser == << parsedContent, planFunction, returnedPlan >>

\* the state of a caller of detectPlaceholders on its own
detector == << textArg, detection >>

\* the state of a call of executeCommand of index.js on its own
runner == << runnerCommand, childProcess, settled >>

\* the state of the terminal tool of main of index.js
terminal == << mainPc, currentPreferences, generated, shouldConfirm, shouldExecute,
               executedCommands, logEntries, interactions, shellHistory >>

\* the state of the context file and of the invocations of main that share it
store == << contextPrefs, contextFile, clock, ticks, invocationPc, loadedContext,
            additions >>

\* the state of the log directory and of the Logger of utils/update-checker.js
logging == << loggerPreferences, logger, today, days, logFiles >>

\* everything that is not state of runAgenticTool
notController == << caller, parser, detector, runner, terminal, store, logging >>

\* everything a call of validateRemainingPlan on its own leaves alone
notCaller == << controller, parser, detector, runner, terminal, store, logging >>

\* everything the plan-shape normalisation on its own leaves alone
notParser == << controller, caller, detector, runner, terminal, store, logging >>

\* everything a call of detectPlaceholders on its own leaves alone
notDetector == << controller, caller, parser, runner, terminal, store, logging >>

\* everything a call of executeCommand on its own leaves alone
notRunner == << controller, caller, parser, detector, terminal, store, logging >>

\* everything the terminal tool of main on its own leaves alone
notTerminal == << controller, caller, parser, detector, runner, store, logging >>

\* everything the invocations sharing a context file leave alone
notStore == << controller, caller, parser, detector, runner, terminal, logging >>

\* everything the Logger leaves alone
notLogging == << controller, caller, parser, detector, runner, terminal, store >>

vars == << controller, caller, parser, detector, runner, terminal, store, logging >>

---------------------------------------------------------------------------
(* Bounds of the model *)

MaxSteps == 2        \* longest plan the model (LLM) returns from createPlan
MaxDepth == 1        \* clarification rounds per controller step
MaxReplans == 1      \* failure replans per run
MaxRevisions == 1    \* plan validations reporting needsUpdate per run
MaxCalls == 2        \* calls of validateRemainingPlan with the same arguments

---------------------------------------------------------------------------
(* JavaScript values *)

Has(obj, key) == key \in DOMAIN obj

\* a.key === b.key where the property may be unset on either side
SameProp(a, b, key) ==
    /\ Has(a, key) = Has(b, key)
    /\ Has(a, key) => a[key] = b[key]

\* the text passed as an argument: an unset property and "" are both falsy
TextOf(obj, key) == IF Has(obj, key) THEN obj[key] ELSE << >>

\* truthiness of an optional text property: set and not the empty string
TruthyText(obj, key) == Has(obj, key) /\ obj[key] # << >>

\* a < b of JavaScript for an optional numeric property: undefined converts
\* to NaN and every comparison with NaN is false
LessThan(obj, key, b) == Has(obj, key) /\ obj[key] < b

Min(a, b) == IF a < b THEN a ELSE b

\* [f1 |-> v1] merged into the object (assignment obj.f = v)
SetProp(obj, key, val) ==
    [k \in DOMAIN obj \cup {key} |-> IF k = key THEN val ELSE obj[k]]

---------------------------------------------------------------------------
(* PlaceholderDetector (part_003 lines 10-28 and 778-797) *)

Upper == << "A","B","C","D","E","F","G","H","I","J","K","L","M",
            "N","O","P","Q","R","S","T","U","V","W","X","Y","Z" >>
Lower == << "a","b","c","d","e","f","g","h","i","j","k","l","m",
            "n","o","p","q","r","s","t","u","v","w","x","y","z" >>

\* the /i flag: characters are compared after case folding
ToLower(c) ==
    IF \E k \in 1..26 : Upper[k] = c
    THEN Lower[CHOOSE k \in 1..26 : Upper[k] = c]
    ELSE c

IsWordChar(c) == ToLower(c) = "_" \/ \E k \in 1..26 : Lower[k] = ToLower(c)

Lit(source, alts) == [source |-> source, kind |-> "literal", alts |-> alts]

PLACEHOLDER_PATTERNS == <<
    Lit("/path\\/to\\//i", << <<"p","a","t","h","/","t","o","/">> >>),
    Lit("/example\\.com/i", << <<"e","x","a","m","p","l","e",".","c","o","m">> >>),
    Lit("/username/i", << <<"u","s","e","r","n","a","m","e">> >>),
    Lit("/password/i", << <<"p","a","s","s","w","o","r","d">> >>),
    Lit("/your_/i", << <<"y","o","u","r","_">> >>),
    [source |-> "/<[a-z_]+>/i", kind |-> "angle", alts |-> << >>],
    [source |-> "/\\[.*?\\]/i", kind |-> "bracket", alts |-> << >>],
    Lit("/placeholder/i", << <<"p","l","a","c","e","h","o","l","d","e","r">> >>),
    Lit("/example/i", << <<"e","x","a","m","p","l","e">> >>),
    Lit("/sample/i", << <<"s","a","m","p","l","e">> >>),
    Lit("/foo|bar|baz/i", << <<"f","o","o">>, <<"b","a","r">>, <<"b","a","z">> >>),
    Lit("/\\/path\\//i", << <<"/","p","a","t","h","/">> >>),
    Lit("/\\/directory\\//i", << <<"/","d","i","r","e","c","t","o","r","y","/">> >>),
    Lit("/\\/folder\\//i", << <<"/","f","o","l","d","e","r","/">> >>),
    Lit("/\\/repo\\//i", << <<"/","r","e","p","o","/">> >>),
    Lit("/\\/repository\\//i", << <<"/","r","e","p","o","s","i","t","o","r","y","/">> >>)
>>

\* the literal `lit` stands in `text` at position pos, ignoring case
LitAt(lit, text, pos) ==
    /\ pos + Len(lit) - 1 <= Len(text)
    /\ \A k \in 1..Len(lit) : ToLower(text[pos + k - 1]) = lit[k]

\* length of the match of `pattern` that starts at position pos, 0 if none
MatchLenAt(pattern, text, pos) ==
    CASE pattern.kind = "literal" ->
           IF \E a \in 1..Len(pattern.alts) : LitAt(pattern.alts[a], text, pos)
           THEN Len(pattern.alts[CHOOSE a \in 1..Len(pattern.alts) :
                        /\ LitAt(pattern.alts[a], text, pos)
                        /\ \A b \in 1..(a - 1) : ~LitAt(pattern.alts[b], text, pos)])
           ELSE 0
      [] pattern.kind = "angle" ->
           \* "<", one or more of [a-z_], ">"
           IF /\ text[pos] = "<"
              /\ \E e \in (pos + 2)..Len(text) :
                    /\ text[e] = ">"
                    /\ \A k \in (pos + 1)..(e - 1) : IsWordChar(text[k])
           THEN (CHOOSE e \in (pos + 2)..Len(text) :
                    /\ text[e] = ">"
                    /\ \A k \in (pos + 1)..(e - 1) : IsWordChar(text[k])) - pos + 1
           ELSE 0
      [] pattern.kind = "bracket" ->
           \* "[", lazily any characters but a line break, "]"
           IF /\ text[pos] = "["
              /\ \E e \in (pos + 1)..Len(text) :
                    /\ text[e] = "]"
                    /\ \A k \in (pos + 1)..(e - 1) : text[k] # "\n"
           THEN (CHOOSE e \in (pos + 1)..Len(text) :
                    /\ text[e] = "]"
                    /\ \A k \in (pos + 1)..(e - 1) : text[k] # "]" /\ text[k] # "\n")
                - pos + 1
           ELSE 0

\* text.match(pattern): does the pattern match anywhere
Matches(pattern, text) ==
    \E pos \in 1..Len(text) : MatchLenAt(pattern, text, pos) > 0

\* matches[0]: the leftmost match
FirstMatch(pattern, text) ==
    LET pos == CHOOSE p \in 1..Len(text) :
                  /\ MatchLenAt(pattern, text, p) > 0
                  /\ \A q \in 1..(p - 1) : MatchLenAt(pattern, text, q) = 0
    IN  SubSeq(text, pos, pos + MatchLenAt(pattern, text, pos) - 1)

\* faulty variant: the loop stops at the first pattern that matches
DetectedPatternsFirstOnly(text, k) ==
    IF \E j \in k..Len(PLACEHOLDER_PATTERNS) : Matches(PLACEHOLDER_PATTERNS[j], text)
    THEN LET j == CHOOSE j \in k..Len(PLACEHOLDER_PATTERNS) :
                     /\ Matches(PLACEHOLDER_PATTERNS[j], text)
                     /\ \A h \in k..(j - 1) : ~Matches(PLACEHOLDER_PATTERNS[h], text)
         IN  << [pattern |-> PLACEHOLDER_PATTERNS[j].source,
                 match |-> FirstMatch(PLACEHOLDER_PATTERNS[j], text)] >>
    ELSE << >>

RECURSIVE DetectedPatterns(_, _)
\* the loop of lines 783-791 over PLACEHOLDER_PATTERNS[k..]
DetectedPatterns(text, k) ==
    IF k > Len(PLACEHOLDER_PATTERNS) THEN << >>
    ELSE LET pattern == PLACEHOLDER_PATTERNS[k]
             rest == DetectedPatterns(text, k + 1)
         IN  IF Matches(pattern, text)
             THEN << [pattern |-> pattern.source,
                      match |-> FirstMatch(pattern, text)] >> \o rest
             ELSE rest

detectPlaceholders(text) ==
    IF text = << >> THEN [detected |-> FALSE]
    ELSE LET detectedPatterns == DetectedPatterns(text, 1)
         IN  [detected |-> Len(detectedPatterns) > 0, patterns |-> detectedPatterns]

---------------------------------------------------------------------------
(* What the external collaborators may answer *)

DEFAULT_CERTAINTY_THRESHOLD == 7

\* const certaintyThreshold = DEFAULT_CERTAINTY_THRESHOLD (line 530)
certaintyThreshold == DEFAULT_CERTAINTY_THRESHOLD

LsLa == << "l","s"," ","-","l","a" >>
CdPathToX == << "c","d"," ","p","a","t","h","/","t","o","/","x" >>
ListFiles == << "l","i","s","t" >>
EnterDir == << "e","n","t","e","r" >>
Report == << "r","e","p","o","r","t" >>
UseSample == << "u","s","e"," ","S","a","m","p","l","e" >>

\* step objects as the model writes them in its JSON answers
ListSure == [description |-> ListFiles, certainty |-> 9, command |-> LsLa]
ListUnsure == [description |-> ListFiles, certainty |-> 5, command |-> LsLa]
ListNoCertainty == [description |-> ListFiles, command |-> LsLa]
EnterPlaceholder == [description |-> EnterDir, certainty |-> 9, command |-> CdPathToX]
ReportOnly == [description |-> Report, certainty |-> 8]
SampleOnly == [description |-> UseSample, certainty |-> 9]

ModelSteps ==
    { ListSure, ListUnsure, ListNoCertainty, EnterPlaceholder, ReportOnly, SampleOnly }

\* all step lists of length 0..n
StepLists(n) == UNION { [1..k -> ModelSteps] : k \in 0..n }

\* the updated steps the model answers a clarification with
ModelClarifiedSteps == { ListSure, ListUnsure, ListNoCertainty, EnterPlaceholder }

\* the plans the model answers createNewPlanAfterFailure with
ModelNewPlans ==
    { << >>, << ListSure >>, << EnterPlaceholder, ListUnsure >> }

\* the updatedSteps lists the model answers the plan-validation prompt with
ModelUpdatedSteps ==
    { << >>, << ListSure >>, << ReportOnly, EnterPlaceholder >> }

\* what the user types at a confirm prompt: yes, no, or just Enter
UserInputs == { "y", "n", "" }

\* faulty variant: Enter alone counts as a yes whatever the prompt's default
ConfirmEnterMeansYes(typed, default) == typed # "n"

\* inquirer's confirm prompt: Enter alone takes the prompt's default
Confirm(typed, default) == IF typed = "" THEN default ELSE typed = "y"

\* stdout of a command that exited with code 0
Outputs == { "out" }

\* error.message of a command that exited nonzero or failed to spawn
ErrorMessages == { "Command failed" }

\* message of an error thrown by the completion client or by JSON.parse
LlmError == "Unexpected token"

---------------------------------------------------------------------------
(* Placeholder post-processing of the plan, runAgenticTool lines 535-565 *)

\* faulty variant: the match list is recorded but the certainty is left alone
ClampCommandKeepsCertainty(s) ==
    IF TruthyText(s, "command") /\ detectPlaceholders(s.command).detected
    THEN SetProp(s, "placeholders", detectPlaceholders(s.command).patterns)
    ELSE s

\* lines 537-550: the command branch of the forEach callback
ClampCommand(s) ==
    IF TruthyText(s, "command") /\ detectPlaceholders(s.command).detected
    THEN SetProp(
           IF Has(s, "certainty")
           THEN SetProp(s, "certainty", Min(s.certainty, certaintyThreshold - 1))
           ELSE s,
           "placeholders", detectPlaceholders(s.command).patterns)
    ELSE s

\* lines 552-564: the description branch of the forEach callback
ClampDescription(s) ==
    IF detectPlaceholders(TextOf(s, "description")).detected
    THEN SetProp(
           IF Has(s, "certainty")
           THEN SetProp(s, "certainty", Min(s.certainty, certaintyThreshold - 1))
           ELSE s,
           "descriptionPlaceholders",
           detectPlaceholders(TextOf(s, "description")).patterns)
    ELSE s

\* originalCertainty.toFixed(2) (lines 548, 563) throws a TypeError when the
\* step has no certainty and a placeholder was detected
ClampThrows(s) ==
    /\ ~Has(s, "certainty")
    /\ \/ TruthyText(s, "command") /\ detectPlaceholders(s.command).detected
       \/ detectPlaceholders(TextOf(s, "description")).detected

ClampStep(s) == ClampDescription(ClampCommand(s))

ClampPlan(steps) == [k \in 1..Len(steps) |-> ClampStep(steps[k])]

---------------------------------------------------------------------------
(* runAgenticTool, lines 522-771 *)

NoStep == [description |-> << >>]
NoObject == [none |-> TRUE]

\* no call of validateRemainingPlan outside runAgenticTool
NoCaller ==
    /\ remainingArg = << >>
    /\ completion = NoObject
    /\ returned = << >>

\* runAgenticTool has been entered
Entered ==
    /\ pc = "createPlan"
    /\ plan = << >>
    /\ results = << >>
    /\ i = 0
    /\ step = NoStep
    /\ command = << >>
    /\ confirm = FALSE
    /\ input = ""
    /\ exited = NoObject
    /\ result = NoObject
    /\ verification = NoObject
    /\ newPlan = << >>
    /\ ret = NoObject
    /\ depth = 0
    /\ replans = 0
    /\ revisions = 0
    /\ cmdRuns = 0
    /\ stepCalls = 0

\* no plan-shape normalisation outside runAgenticTool
NoParser ==
    /\ parsedContent = NoObject
    /\ planFunction = "none"
    /\ returnedPlan = NoObject

\* no call of detectPlaceholders outside runAgenticTool
NoDetector ==
    /\ textArg = << >>
    /\ detection = NoObject

\* no call of executeCommand of index.js
NoRunner ==
    /\ runnerCommand = << >>
    /\ childProcess = NoObject
    /\ settled = NoObject

\* main of index.js is not running
NoTerminal ==
    /\ mainPc = "none"
    /\ currentPreferences = NoObject
    /\ generated = NoObject
    /\ shouldConfirm = "unset"
    /\ shouldExecute = FALSE
    /\ executedCommands = << >>
    /\ logEntries = << >>
    /\ interactions = << >>
    /\ shellHistory = << >>

\* no invocation of main shares a context file
NoStore ==
    /\ contextPrefs = NoObject
    /\ contextFile = NoObject
    /\ clock = 0
    /\ ticks = 0
    /\ invocationPc = << >>
    /\ loadedContext = << >>
    /\ additions = << >>

\* no Logger is constructed
NoLogging ==
    /\ loggerPreferences = NoObject
    /\ logger = NoObject
    /\ today = 0
    /\ days = 0
    /\ logFiles = { }

Init ==
    /\ Entered /\ NoCaller /\ NoParser /\ NoDetector /\ NoRunner /\ NoTerminal
    /\ NoStore /\ NoLogging

counters == << replans, revisions, cmdRuns, stepCalls >>
ghosts == << depth, replans, revisions, cmdRuns, stepCalls >>
locals == << step, command, confirm, exited, result, verification, newPlan >>

\* the locals of the loop body and of executeStep go out of scope when an
\* iteration ends (continue, break, return, throw)
EndOfIteration ==
    /\ step' = NoStep
    /\ command' = << >>
    /\ confirm' = FALSE
    /\ exited' = NoObject
    /\ result' = NoObject
    /\ verification' = NoObject
    /\ newPlan' = << >>
    /\ depth' = 0

\* faulty variant: the error is logged and the loop goes on
AbortContinues(message) ==
    /\ pc' = "loop"
    /\ ret' = [success |-> FALSE, error |-> message]
    /\ EndOfIteration

\* catch (error) of lines 767-770: the run aborts
Abort(message) ==
    /\ pc' = "done"
    /\ ret' = [success |-> FALSE, error |-> message]
    /\ EndOfIteration

\* faulty variant: the cancelled run reports success
CancelledReportsSuccess ==
    [success |-> TRUE, reason |-> "Plan execution cancelled by user"]

\* line 593
Cancelled == [success |-> FALSE, reason |-> "Plan execution cancelled by user"]

\* line 766
Completed(records) == [success |-> TRUE, results |-> records]

\* faulty variant: the index does not move on after a processed step
NextIndexStays(index) == IF index < 0 THEN 0 ELSE index

\* faulty variant: the index moves on by two
NextIndexSkipsOne(index) == index + 2

\* i++ of the for statement, line 598
NextIndex(index) == index + 1

\* lines 533-565: createPlan answered with one of `answers`, then the
\* placeholder post-processing
CreatePlanFrom(answers) ==
    /\ pc = "createPlan"
    /\ \E steps \in answers :
          IF \E k \in 1..Len(steps) : ClampThrows(steps[k])
          THEN /\ Abort("Cannot read properties of undefined (reading 'toFixed')")
               /\ UNCHANGED plan
          ELSE /\ plan' = ClampPlan(steps)
               /\ pc' = "confirmPlan"
               /\ UNCHANGED << ret, locals, depth >>
    /\ UNCHANGED << results, i, input, counters >>

CreatePlan == CreatePlanFrom(StepLists(MaxSteps))

\* createPlan lines 125-128: the completion call or JSON.parse threw
CreatePlanFails ==
    /\ pc = "createPlan"
    /\ Abort(LlmError)
    /\ UNCHANGED << plan, results, i, input, counters >>

\* lines 581-597: "Do you want to execute this plan?" (default: false)
ConfirmPlan ==
    /\ pc = "confirmPlan"
    /\ \E typed \in UserInputs :
          /\ input' = typed
          /\ IF ~Confirm(typed, FALSE)
             THEN /\ pc' = "done"
                  /\ ret' = Cancelled
                  /\ UNCHANGED << results, i >>
             ELSE /\ pc' = "loop"
                  /\ results' = << >>
                  /\ i' = 0
                  /\ UNCHANGED ret
    /\ UNCHANGED << plan, locals, ghosts >>

\* faulty variant: the record must also carry the same certainty
IsAlreadyExecutedSameCertainty(r, s) ==
    /\ SameProp(r.step, s, "description")
    /\ SameProp(r.step, s, "command")
    /\ SameProp(r.step, s, "certainty")
    /\ r.verification.verified

\* lines 606-611: the predicate of results.find(...)
IsAlreadyExecuted(r, s) ==
    /\ SameProp(r.step, s, "description")
    /\ SameProp(r.step, s, "command")
    /\ r.verification.verified

\* results.find returns the first record that satisfies the predicate
AlreadyExecutedIndex(s) ==
    IF \E k \in 1..Len(results) : IsAlreadyExecuted(results[k], s)
    THEN CHOOSE k \in 1..Len(results) :
            /\ IsAlreadyExecuted(results[k], s)
            /\ \A j \in 1..(k - 1) : ~IsAlreadyExecuted(results[j], s)
    ELSE 0

\* line 598 with i >= plan.steps.length, then lines 756-766
LoopExit ==
    /\ pc = "loop"
    /\ i >= Len(plan)
    /\ pc' = "done"
    /\ ret' = Completed(results)
    /\ UNCHANGED << plan, results, i, input, locals, ghosts >>

\* lines 613-627: the step was already executed and verified; reuse the record
ReuseRecord ==
    /\ pc = "loop"
    /\ i < Len(plan)
    /\ AlreadyExecutedIndex(plan[i + 1]) # 0
    /\ LET alreadyExecuted == results[AlreadyExecutedIndex(plan[i + 1])]
       IN  results' = Append(results, [step |-> plan[i + 1],
                                       result |-> alreadyExecuted.result,
                                       verification |-> alreadyExecuted.verification])
    /\ i' = NextIndex(i)
    /\ UNCHANGED << pc, plan, ret, input, locals, ghosts >>

\* line 630: the controller calls executeStep for plan.steps[i]
CallExecuteStep ==
    /\ pc = "loop"
    /\ i < Len(plan)
    /\ AlreadyExecutedIndex(plan[i + 1]) = 0
    /\ step' = plan[i + 1]
    /\ depth' = 0
    /\ stepCalls' = stepCalls + 1
    /\ pc' = "executeStep"
    /\ UNCHANGED << plan, results, i, ret, input, command, confirm, exited, result,
                    verification, newPlan, replans, revisions, cmdRuns >>

---------------------------------------------------------------------------
(* executeStep, lines 139-190, and askForClarification, lines 222-355 *)

\* faulty variant: executeStep looks for placeholders again and sends a step
\* whose command has one to clarification whatever its certainty
NeedsClarificationOrPlaceholder(s) ==
    \/ LessThan(s, "certainty", certaintyThreshold)
    \/ detectPlaceholders(TextOf(s, "command")).detected

\* line 148
NeedsClarification(s) == LessThan(s, "certainty", certaintyThreshold)

\* faulty variant: every unsuccessful result counts, a declined command too
IsHardFailureOrSkipped(res) == ~res.success

\* line 633
IsHardFailure(res) == ~res.success /\ ~(Has(res, "skipped") /\ res.skipped)

\* faulty variant: the result of a command that ran is marked skipped
SuccessResultMarkedSkipped(stdout, cmd) ==
    [success |-> TRUE, skipped |-> TRUE, result |-> stdout, command |-> cmd]

\* line 175
SuccessResult(stdout, cmd) == [success |-> TRUE, result |-> stdout, command |-> cmd]

\* faulty variant: a runtime failure is marked skipped as well
FailureResultMarkedSkipped(message, cmd) ==
    [success |-> FALSE, skipped |-> TRUE, error |-> message, command |-> cmd]

\* line 179
FailureResult(message, cmd) == [success |-> FALSE, error |-> message, command |-> cmd]

\* faulty variant: a declined command is reported as a success
SkippedResultAsSuccess(cmd) == [success |-> TRUE, skipped |-> TRUE, command |-> cmd]

\* line 183
SkippedResult(cmd) == [success |-> FALSE, skipped |-> TRUE, command |-> cmd]

\* faulty variant: a step without a command counts as skipped
NoCommandResultSkipped == [success |-> FALSE, skipped |-> TRUE]

\* line 189
NoCommandResult == [success |-> TRUE]

\* faulty variant: the loop goes on to the next call without awaiting the
\* verification of this result
ReturnWithoutAwaiting(res) ==
    /\ result' = res
    /\ pc' = "loop"

\* executeStep returns res to line 630; lines 632-633 pick the branch
ReturnFromExecuteStep(res) ==
    /\ result' = res
    /\ pc' = IF IsHardFailure(res) THEN "askCreateNewPlan" ELSE "verify"

\* lines 147-158 and 187-189: the executor examines the step
ExecuteStep ==
    /\ pc = "executeStep"
    /\ IF NeedsClarification(step)
       THEN /\ pc' = "askForClarification"
            /\ UNCHANGED << command, result >>
       ELSE IF TruthyText(step, "command")
       THEN /\ command' = step.command
            /\ pc' = "confirmCommand"
            /\ UNCHANGED result
       ELSE /\ ReturnFromExecuteStep(NoCommandResult)
            /\ UNCHANGED command
    /\ UNCHANGED << exited, plan, results, i, ret, step, confirm, input, verification,
                    newPlan, ghosts >>

\* lines 225-350: question, user's answer, updated step, recursive executeStep
AskForClarification ==
    /\ pc = "askForClarification"
    /\ depth < MaxDepth
    /\ \E updatedStep \in ModelClarifiedSteps :
          step' = SetProp(updatedStep, "clarified", TRUE)
    /\ depth' = depth + 1
    /\ pc' = "executeStep"
    /\ UNCHANGED << exited, plan, results, i, ret, command, confirm, input, result,
                    verification, newPlan, replans, revisions, cmdRuns, stepCalls >>

\* lines 351-354: a completion call or JSON.parse threw; the error is rethrown
AskForClarificationFails ==
    /\ pc = "askForClarification"
    /\ Abort(LlmError)
    /\ UNCHANGED << plan, results, i, input, counters >>

\* faulty variant: the command is run whatever the answer
RunsCommandAlways(confirmed) == TRUE

\* line 169: if (confirm)
RunsCommand(confirmed) == confirmed

\* lines 160-184: "Do you want to execute this command?" (default: false)
ConfirmCommand ==
    /\ pc = "confirmCommand"
    /\ \E typed \in UserInputs :
          /\ input' = typed
          /\ confirm' = Confirm(typed, FALSE)
          /\ IF RunsCommand(confirm')
             THEN /\ pc' = "executing"      \* executeCommandPromise(command)
                  /\ cmdRuns' = cmdRuns + 1
                  /\ UNCHANGED result
             ELSE /\ ReturnFromExecuteStep(SkippedResult(command))
                  /\ UNCHANGED cmdRuns
    /\ UNCHANGED << exited, plan, results, i, ret, step, command, verification, newPlan,
                    depth, replans, revisions, stepCalls >>

\* how the child process of exec ended: an exit code, or it could not be spawned
ProcessOutcomes == { [code |-> 0], [code |-> 1], [spawnError |-> "ENOENT"] }

\* line 200: exec passes an error unless the process exited with code 0
ExecError(outcome) == ~(Has(outcome, "code") /\ outcome.code = 0)

\* lines 172-180 and 197-210: the child process ended
CommandExits ==
    /\ pc = "executing"
    /\ \E outcome \in ProcessOutcomes :
          /\ exited' = outcome
          /\ IF ExecError(outcome)
             THEN \E message \in ErrorMessages :
                     ReturnFromExecuteStep(FailureResult(message, command))
             ELSE \E stdout \in Outputs :
                     ReturnFromExecuteStep(SuccessResult(stdout, command))
    /\ UNCHANGED << plan, results, i, ret, step, command, confirm, input,
                    verification, newPlan, ghosts >>

---------------------------------------------------------------------------
(* Failure replanning, runAgenticTool lines 632-692 *)

\* lines 636-645: "Would you like to create a new plan from this point?"
\* (default: true)
AskCreateNewPlan ==
    /\ pc = "askCreateNewPlan"
    /\ \E typed \in UserInputs :
          /\ input' = typed
          /\ IF Confirm(typed, TRUE)
             THEN /\ replans < MaxReplans
                  /\ replans' = replans + 1
                  /\ pc' = "createNewPlanAfterFailure"
             ELSE /\ pc' = "verify"
                  /\ UNCHANGED replans
    /\ UNCHANGED << plan, results, i, ret, locals, depth, revisions, cmdRuns, stepCalls >>

\* lines 647-667 and 808-881: the model answered with a new plan
CreateNewPlanAfterFailure ==
    /\ pc = "createNewPlanAfterFailure"
    /\ \E steps \in ModelNewPlans : newPlan' = steps
    /\ pc' = "askUseNewPlan"
    /\ UNCHANGED << exited, plan, results, i, ret, step, command, confirm, input, result,
                    verification, ghosts >>

\* lines 882-885: the completion call or JSON.parse threw
CreateNewPlanAfterFailureFails ==
    /\ pc = "createNewPlanAfterFailure"
    /\ Abort(LlmError)
    /\ UNCHANGED << plan, results, i, input, counters >>

\* faulty variant: the records of the abandoned plan are kept
KeptResults(records) == records

\* line 686: results.length = 0
ClearedResults(records) == << >>

\* lines 670-690: "Do you want to use this new plan?" (default: true)
AskUseNewPlan ==
    /\ pc = "askUseNewPlan"
    /\ \E typed \in UserInputs :
          /\ input' = typed
          /\ IF Confirm(typed, TRUE)
             THEN /\ plan' = newPlan
                  /\ i' = NextIndex(-1)     \* i = -1, then i++ of the for statement
                  /\ results' = ClearedResults(results)
                  /\ pc' = "loop"       \* continue
                  /\ EndOfIteration
             ELSE /\ pc' = "verify"
                  /\ UNCHANGED << plan, i, results, locals, depth >>
    /\ UNCHANGED << ret, counters >>

---------------------------------------------------------------------------
(* verifyStepResult, lines 452-514, and validateRemainingPlan, lines 366-441 *)

\* line 695
remainingSteps == IF i < Len(plan) - 1 THEN SubSeq(plan, i + 2, Len(plan)) ELSE << >>

\* faulty variant: the step executeStep last worked on, revised by
\* clarification or not
LoopStepAsExecuted == step

\* line 599: const step = plan.steps[i], the loop body's own step
LoopStep == plan[i + 1]

\* lines 700-753: the record is appended, then the loop body picks its branch
RecordAndBranch(v) ==
    /\ results' = Append(results, [step |-> LoopStep, result |-> result,
                                   verification |-> v])
    /\ IF ~v.verified
       THEN /\ pc' = "askContinue"
            /\ verification' = v
            /\ UNCHANGED << i, step, command, confirm, exited, result, newPlan, depth >>
       ELSE IF Has(v, "planValidation") /\ v.planValidation.needsUpdate
       THEN /\ pc' = "askUseUpdatedPlan"
            /\ verification' = v
            /\ UNCHANGED << i, step, command, confirm, exited, result, newPlan, depth >>
       ELSE /\ pc' = "loop"
            /\ i' = NextIndex(i)
            /\ EndOfIteration

\* faulty variant: the two reasons are swapped
ShortCircuitSwapped(res) ==
    [verified |-> FALSE,
     reason |-> IF Has(res, "skipped") /\ res.skipped
                THEN "Step execution failed" ELSE "Step was skipped"]

\* line 455
ShortCircuit(res) ==
    [verified |-> FALSE,
     reason |-> IF Has(res, "skipped") /\ res.skipped
                THEN "Step was skipped" ELSE "Step execution failed"]

\* faulty variant: a skipped result is sent to the model for a verdict
IsUnsuccessfulNotSkipped(res) == ~res.success /\ ~Has(res, "skipped")

\* line 454
IsUnsuccessful(res) == ~res.success

\* lines 698 and 453-456: the verifier is called; an unsuccessful result
\* returns at once, a successful one goes to the completion client
VerifyStepResult ==
    /\ pc = "verify"
    /\ IF IsUnsuccessful(result)
       THEN RecordAndBranch(ShortCircuit(result))
       ELSE /\ pc' = "verifyCompletion"
            /\ UNCHANGED << results, i, locals, depth >>
    /\ UNCHANGED << plan, ret, input, counters >>

\* faulty variant: the remaining plan is validated after every verified step
ValidatesRemainingAlways(v, remaining) == v.verified

\* lines 494 and 498: if (verification.verified), if (remainingSteps &&
\* remainingSteps.length > 0)
ValidatesRemaining(v, remaining) == v.verified /\ Len(remaining) > 0

\* lines 491-509: the model's verdict; a verified step with remaining steps
\* goes on to validateRemainingPlan
VerifyCompletion ==
    /\ pc = "verifyCompletion"
    /\ \E verified \in BOOLEAN :
          LET v == [verified |-> verified, reason |-> "model verdict"]
          IN  IF ValidatesRemaining(v, remainingSteps)
              THEN /\ verification' = v
                   /\ pc' = "validateRemainingPlan"
                   /\ UNCHANGED << results, i, step, command, confirm, exited, result,
                                   newPlan, depth >>
              ELSE RecordAndBranch(v)
    /\ UNCHANGED << plan, ret, input, counters >>

\* lines 510-513: the completion call or JSON.parse threw
VerifyCompletionFails ==
    /\ pc = "verifyCompletion"
    /\ Abort(LlmError)
    /\ UNCHANGED << plan, results, i, input, counters >>

\* faulty variant: without an update the returned list is empty
ValidationResultDropsSteps(validation, remaining) ==
    [updatedSteps |-> IF validation.needsUpdate /\ Has(validation, "updatedSteps")
                      THEN validation.updatedSteps ELSE << >>,
     needsUpdate |-> validation.needsUpdate,
     reason |-> validation.reason]

\* faulty variant: an update without updatedSteps proposes the remaining steps
ValidationResultKeepsRemaining(validation, remaining) ==
    [updatedSteps |-> IF validation.needsUpdate /\ Has(validation, "updatedSteps")
                      THEN validation.updatedSteps ELSE remaining,
     needsUpdate |-> validation.needsUpdate,
     reason |-> validation.reason]

\* lines 418-435: what validateRemainingPlan returns for the model's answer
\* `validation` ({needsUpdate, reason, updatedSteps?})
ValidationResult(validation, remaining) ==
    IF validation.needsUpdate
    THEN [updatedSteps |-> IF Has(validation, "updatedSteps")
                           THEN validation.updatedSteps ELSE << >>,
          needsUpdate |-> TRUE,
          reason |-> validation.reason]
    ELSE [updatedSteps |-> remaining,
          needsUpdate |-> FALSE,
          reason |-> validation.reason]

\* faulty variant: a failed call proposes to drop the remaining steps
ValidationFallbackDropsPlan(remaining) == [updatedSteps |-> << >>, needsUpdate |-> TRUE]

\* lines 436-440: the failure of the call is absorbed
ValidationFallback(remaining) == [updatedSteps |-> remaining, needsUpdate |-> FALSE]

\* answers of the model to the plan-validation prompt
ModelValidations ==
    { [needsUpdate |-> FALSE, reason |-> "still valid"],
      [needsUpdate |-> TRUE, reason |-> "outdated"] }
    \cup { [needsUpdate |-> TRUE, reason |-> "outdated", updatedSteps |-> u] :
             u \in ModelUpdatedSteps }

\* the completion call or JSON.parse threw instead of giving an answer
Thrown == [thrown |-> LlmError]

\* validateRemainingPlan as a function of its remainingSteps argument and of
\* what the completion call gives; lines 367-369 return before any call
validateRemainingPlan(remaining, answer) ==
    IF Len(remaining) = 0
    THEN [updatedSteps |-> << >>, needsUpdate |-> FALSE]
    ELSE IF Has(answer, "thrown")
    THEN ValidationFallback(remaining)
    ELSE ValidationResult(answer, remaining)

\* lines 499-500 and 385-435: the model answered the plan-validation prompt
ValidateRemainingPlan ==
    /\ pc = "validateRemainingPlan"
    /\ \E validation \in ModelValidations :
          /\ validation.needsUpdate => revisions < MaxRevisions
          /\ revisions' = IF validation.needsUpdate THEN revisions + 1 ELSE revisions
          /\ RecordAndBranch(SetProp(verification, "planValidation",
                                     validateRemainingPlan(remainingSteps, validation)))
    /\ UNCHANGED << plan, ret, input, replans, cmdRuns, stepCalls >>

\* lines 436-440, then 500: the completion call or JSON.parse threw
ValidateRemainingPlanFails ==
    /\ pc = "validateRemainingPlan"
    /\ RecordAndBranch(SetProp(verification, "planValidation",
                               validateRemainingPlan(remainingSteps, Thrown)))
    /\ UNCHANGED << plan, ret, input, counters >>

---------------------------------------------------------------------------
(* The decisions after verification, runAgenticTool lines 706-754 *)

\* lines 707-721: "Step verification failed. Do you want to continue with the
\* next step?" (default: false)
AskContinue ==
    /\ pc = "askContinue"
    /\ \E typed \in UserInputs :
          /\ input' = typed
          /\ IF Confirm(typed, FALSE)
             THEN /\ i' = NextIndex(i)
                  /\ pc' = "loop"
                  /\ UNCHANGED ret
             ELSE /\ pc' = "done"      \* break, then lines 756-766
                  /\ ret' = Completed(results)
                  /\ UNCHANGED i
    /\ EndOfIteration
    /\ UNCHANGED << plan, results, counters >>

\* faulty variant: the splice starts at the current index
SpliceFromCurrent(steps, index, updatedSteps) == SubSeq(steps, 1, index) \o updatedSteps

\* line 748: plan.steps.splice(i + 1, plan.steps.length - (i + 1), ...updatedSteps)
Splice(steps, index, updatedSteps) == SubSeq(steps, 1, index + 1) \o updatedSteps

\* lines 723-753: "Do you want to use this updated plan for the remaining
\* steps?" (default: true)
AskUseUpdatedPlan ==
    /\ pc = "askUseUpdatedPlan"
    /\ \E typed \in UserInputs :
          /\ input' = typed
          /\ plan' = IF Confirm(typed, TRUE)
                     THEN Splice(plan, i, verification.planValidation.updatedSteps)
                     ELSE plan
    /\ i' = NextIndex(i)
    /\ pc' = "loop"
    /\ EndOfIteration
    /\ UNCHANGED << results, ret, counters >>

---------------------------------------------------------------------------

Next ==
    \/ CreatePlan /\ UNCHANGED notController
    \/ CreatePlanFails /\ UNCHANGED notController
    \/ ConfirmPlan /\ UNCHANGED notController
    \/ LoopExit /\ UNCHANGED notController
    \/ ReuseRecord /\ UNCHANGED notController
    \/ CallExecuteStep /\ UNCHANGED notController
    \/ ExecuteStep /\ UNCHANGED notController
    \/ AskForClarification /\ UNCHANGED notController
    \/ AskForClarificationFails /\ UNCHANGED notController
    \/ ConfirmCommand /\ UNCHANGED notController
    \/ CommandExits /\ UNCHANGED notController
    \/ AskCreateNewPlan /\ UNCHANGED notController
    \/ CreateNewPlanAfterFailure /\ UNCHANGED notController
    \/ CreateNewPlanAfterFailureFails /\ UNCHANGED notController
    \/ AskUseNewPlan /\ UNCHANGED notController
    \/ VerifyStepResult /\ UNCHANGED notController
    \/ VerifyCompletion /\ UNCHANGED notController
    \/ VerifyCompletionFails /\ UNCHANGED notController
    \/ ValidateRemainingPlan /\ UNCHANGED notController
    \/ ValidateRemainingPlanFails /\ UNCHANGED notController
    \/ AskContinue /\ UNCHANGED notController
    \/ AskUseUpdatedPlan /\ UNCHANGED notController

Spec == Init /\ [][Next]_vars

\* every completion call, prompt and child process returns: a step that can
\* be taken is taken
SpecLive == Spec /\ WF_vars(Next)

---------------------------------------------------------------------------
(* validateRemainingPlan, lines 366-441, called repeatedly by a caller that
   keeps its arguments and gets the same answer from the completion client *)

InitValidate ==
    /\ Entered
    /\ NoStore
    /\ NoLogging
    /\ NoTerminal
    /\ NoParser
    /\ NoDetector
    /\ NoRunner
    /\ remainingArg \in StepLists(MaxSteps)
    /\ completion \in ModelValidations \cup { Thrown }
    /\ returned = << >>

\* one call; lines 381-383 only read remainingSteps (map), nothing assigns to
\* the array or to its steps
CallValidateRemainingPlan ==
    /\ Len(returned) < MaxCalls
    /\ returned' = Append(returned, validateRemainingPlan(remainingArg, completion))
    /\ remainingArg' = remainingArg
    /\ UNCHANGED << completion, notCaller >>

NextValidate == CallValidateRemainingPlan

SpecValidate == InitValidate /\ [][NextValidate]_vars

---------------------------------------------------------------------------
(* Plan generation and post-processing alone, runAgenticTool lines 533-594,
   for plans made of install, clone and navigation commands *)

CdExampleProject ==
    << "c","d"," ","e","x","a","m","p","l","e","_","p","r","o","j","e","c","t"," ","&","&"," ","n","p","m"," ","i","n","s","t","a","l","l" >>
CdPathToProject ==
    << "c","d"," ","p","a","t","h","/","t","o","/","p","r","o","j","e","c","t"," ","&","&"," ","n","p","m"," ","i","n","s","t","a","l","l" >>
NpmInstall == << "n","p","m"," ","i","n","s","t","a","l","l" >>
GitCloneRepoUrl ==
    << "g","i","t"," ","c","l","o","n","e"," ","<","r","e","p","o","_","u","r","l",">" >>
EchoName == << "e","c","h","o"," ","[","n","a","m","e","]" >>
Install == << "i","n","s","t","a","l","l" >>

ScenarioCommands ==
    { CdExampleProject, CdPathToProject, NpmInstall, GitCloneRepoUrl, EchoName, LsLa }

ScenarioDescriptions == { Install, ListFiles, Report }

\* the model is sure of every step (certainty 0.9)
ScenarioSteps ==
    { [description |-> d, certainty |-> 9, command |-> c] :
        d \in ScenarioDescriptions, c \in ScenarioCommands }

ScenarioPlans == UNION { [1..k -> ScenarioSteps] : k \in 0..MaxSteps }

CreateScenarioPlan == CreatePlanFrom(ScenarioPlans)

NextScenario ==
    \/ CreateScenarioPlan /\ UNCHANGED notController
    \/ CreatePlanFails /\ UNCHANGED notController
    \/ ConfirmPlan /\ UNCHANGED notController

SpecScenario == Init /\ [][NextScenario]_vars

---------------------------------------------------------------------------
(* runAgenticTool up to the plan confirmation when the model answers with a
   long plan: createPlan returns whatever number of steps the answer has *)

\* "maximum 10 steps" of the README
MaxPlanSteps == 10

\* answers of MaxPlanSteps - 1 to MaxPlanSteps + 1 steps
LongPlans ==
    UNION { [1..k -> { ListSure, ReportOnly }] :
                k \in (MaxPlanSteps - 1)..(MaxPlanSteps + 1) }

CreateLongPlan == CreatePlanFrom(LongPlans)

NextLongPlan ==
    \/ CreateLongPlan /\ UNCHANGED notController
    \/ CreatePlanFails /\ UNCHANGED notController
    \/ ConfirmPlan /\ UNCHANGED notController

SpecLongPlan == Init /\ [][NextLongPlan]_vars

---------------------------------------------------------------------------
(* detectPlaceholders, lines 778-797, called once by a caller on its own *)

\* the texts the caller passes, each a beginning followed by an ending; the
\* empty text stands for '' and for undefined, which line 779 treats alike
DetectorTexts ==
    LET heads == {
        << "c","d"," ","/","p","a","t","h","/","t","o","/","r","e","p","o" >>,
        << "l","s"," ","-","l","a" >>,
        << >>,
        << "e","c","h","o"," ","f","o","o" >>,
        << "c","a","t"," ","<","f","i","l","e","_","n","a","m","e",">" >>,
        << "r","m"," ","[","x","]" >>,
        << "c","u","r","l"," ","e","x","a","m","p","l","e",".","c","o","m" >>,
        << "c","d"," ","/","R","e","p","o","/","x" >> }
        tails == {
        << >>,
        << " ","&","&"," ","g","i","t"," ","p","u","l","l" >>,
        << " ","b","a","r" >>,
        << " ","S","a","m","p","l","e" >>,
        << " ","y","o","u","r","_","k","e","y" >>,
        << " ","/","f","o","l","d","e","r","/","a" >>,
        << " ","-","u"," ","u","s","e","r","n","a","m","e" >>,
        << " ","b","a","z"," ","f","o","o" >> }
    IN  { h \o t : h \in heads, t \in tails }

InitDetect ==
    /\ Entered
    /\ NoStore
    /\ NoLogging
    /\ NoTerminal
    /\ NoCaller
    /\ NoParser
    /\ NoRunner
    /\ textArg \in DetectorTexts
    /\ detection = NoObject

\* one call of detectPlaceholders(text)
CallDetectPlaceholders ==
    /\ detection = NoObject
    /\ detection' = detectPlaceholders(textArg)
    /\ UNCHANGED << textArg, notDetector >>

NextDetect == CallDetectPlaceholders

SpecDetect == InitDetect /\ [][NextDetect]_vars

---------------------------------------------------------------------------
(* The plan-shape normalisation of createPlan, lines 113-124, and of
   createNewPlanAfterFailure, lines 870-881.  JSON values carry their type:
   [js |-> "array", items |-> ...], [js |-> "object", props |-> ...], and
   the primitives. *)

JsArray(items) == [js |-> "array", items |-> items]
JsObject(props) == [js |-> "object", props |-> props]
JsString(text) == [js |-> "string", text |-> text]
JsNumber(n) == [js |-> "number", n |-> n]
JsBoolean(b) == [js |-> "boolean", b |-> b]
JsNull == [js |-> "null"]

\* JavaScript truthiness
Truthy(v) ==
    CASE v.js = "null" -> FALSE
      [] v.js = "string" -> Len(v.text) > 0
      [] v.js = "number" -> v.n # 0
      [] v.js = "boolean" -> v.b
      [] OTHER -> TRUE

\* plan.steps is truthy; a property read on an array or a primitive other
\* than null gives undefined
HasTruthySteps(v) ==
    /\ v.js = "object"
    /\ Has(v.props, "steps")
    /\ Truthy(v.props.steps)

\* reading .steps of null throws a TypeError, caught at lines 125-128 / 882-885
NormalizeThrows(v) == v.js = "null"

\* faulty variant: only a bare array is wrapped
NormalizeOnlyArrays(v) ==
    IF v.js = "array" THEN JsObject([steps |-> v]) ELSE v

\* lines 117-121 and 874-878
Normalize(v) ==
    IF ~HasTruthySteps(v) /\ v.js = "array" THEN JsObject([steps |-> v])
    ELSE IF ~HasTruthySteps(v) THEN JsObject([steps |-> JsArray(<< v >>)])
    ELSE v

\* values a steps property may hold other than an array of steps
OddSteps == { JsNull, JsString(<< >>), JsString(<< "a","b","c" >>), JsNumber(0),
              JsBoolean(FALSE) }

\* what JSON.parse may give for the content of the model's answer
ParsedContents ==
    { JsArray(l) : l \in StepLists(MaxSteps) }
    \cup { JsObject([steps |-> JsArray(l)]) : l \in StepLists(MaxSteps) }
    \cup { JsObject([steps |-> o]) : o \in OddSteps }
    \cup { JsObject(s) : s \in ModelSteps }
    \cup { JsNull, JsNumber(5) }

InitNormalize ==
    /\ Entered
    /\ NoStore
    /\ NoLogging
    /\ NoTerminal
    /\ NoCaller
    /\ NoDetector
    /\ NoRunner
    /\ parsedContent \in ParsedContents
    /\ planFunction \in { "createPlan", "createNewPlanAfterFailure" }
    /\ returnedPlan = NoObject

\* lines 114-124 / 871-881: the parsed content is normalised and returned
ReturnPlan ==
    /\ returnedPlan = NoObject
    /\ ~NormalizeThrows(parsedContent)
    /\ returnedPlan' = Normalize(parsedContent)
    /\ UNCHANGED << parsedContent, planFunction, notParser >>

\* lines 125-128 / 882-885: the TypeError is rethrown
ReturnPlanThrows ==
    /\ returnedPlan = NoObject
    /\ NormalizeThrows(parsedContent)
    /\ returnedPlan' = [thrown |-> "Cannot read properties of null (reading 'steps')"]
    /\ UNCHANGED << parsedContent, planFunction, notParser >>

NextNormalize ==
    \/ ReturnPlan
    \/ ReturnPlanThrows

SpecNormalize == InitNormalize /\ [][NextNormalize]_vars

---------------------------------------------------------------------------
(* CommandRunner: isInteractiveCommand (index.js lines 1614-1631) and
   executeCommand (index.js lines 1697-1774), one call on its own *)

\* bound on the data events of each of the two pipes
MaxChunks == 2

Digits == << "0","1","2","3","4","5","6","7","8","9" >>

\* \w of a regular expression
IsRegexWordChar(c) == IsWordChar(c) \/ \E k \in 1..10 : Digits[k] = c

RECURSIVE Split(_)
\* command.split(' ')
Split(text) ==
    IF \E p \in 1..Len(text) : text[p] = " "
    THEN LET p == CHOOSE q \in 1..Len(text) :
                     /\ text[q] = " "
                     /\ \A r \in 1..(q - 1) : text[r] # " "
         IN  << SubSeq(text, 1, p - 1) >> \o Split(SubSeq(text, p + 1, Len(text)))
    ELSE << text >>

knownInteractiveCommands == <<
    << "v","i","m" >>,
    << "n","a","n","o" >>,
    << "e","m","a","c","s" >>,
    << "l","e","s","s" >>,
    << "m","o","r","e" >>,
    << "t","o","p" >>,
    << "h","t","o","p" >>,
    << "s","s","h" >>,
    << "m","y","s","q","l" >>,
    << "p","s","q","l" >>,
    << "p","y","t","h","o","n" >>,
    << "n","o","d","e" >> >>

interactiveFlags == << << "-","i" >>, << "-","-","i","n","t","e","r","a","c","t","i","v","e" >> >>

\* \b at the gap before position pos (1..Len(text)+1)
WordBoundaryAt(text, pos) ==
    LET before == pos > 1 /\ IsRegexWordChar(text[pos - 1])
        after == pos <= Len(text) /\ IsRegexWordChar(text[pos])
    IN  before # after

\* /\b(edit|editor)\b/i.test(command)
hasEditorPattern(text) ==
    \E pos \in 1..Len(text) : \E word \in { << "e","d","i","t" >>, << "e","d","i","t","o","r" >> } :
        /\ WordBoundaryAt(text, pos)
        /\ LitAt(word, text, pos)
        /\ WordBoundaryAt(text, pos + Len(word))

\* faulty variant: the -i / --interactive flags are not looked at
isInteractiveCommandNoFlags(text) ==
    /\ text # << >>
    /\ \/ \E k \in 1..Len(knownInteractiveCommands) :
              Split(text)[1] = knownInteractiveCommands[k]
       \/ hasEditorPattern(text)

isInteractiveCommand(text) ==
    /\ text # << >>
    /\ LET commandName == Split(text)[1]
           hasInteractiveFlag ==
               \E t \in 1..Len(Split(text)) : \E f \in 1..Len(interactiveFlags) :
                   Split(text)[t] = interactiveFlags[f]
       IN  \/ \E k \in 1..Len(knownInteractiveCommands) :
                 commandName = knownInteractiveCommands[k]
           \/ hasInteractiveFlag
           \/ hasEditorPattern(text)

IsWhitespace(c) == c \in { " ", "\n", "\t" }

\* String.prototype.trim
Trim(text) ==
    IF \A k \in 1..Len(text) : IsWhitespace(text[k]) THEN << >>
    ELSE LET first == CHOOSE a \in 1..Len(text) :
                         /\ ~IsWhitespace(text[a])
                         /\ \A b \in 1..(a - 1) : IsWhitespace(text[b])
             last == CHOOSE a \in 1..Len(text) :
                         /\ ~IsWhitespace(text[a])
                         /\ \A b \in (a + 1)..Len(text) : IsWhitespace(text[b])
         IN  SubSeq(text, first, last)

\* the commands a caller passes
RunnerCommands == {
    << "v","i","m"," ","a" >>,
    << "l","s"," ","-","l","a" >>,
    << "r","m"," ","-","i"," ","a" >>,
    << "g","i","t"," ","a","d","d"," ","-","-","i","n","t","e","r","a","c","t","i","v","e" >>,
    << "c","a","t"," ","c","r","e","d","i","t","s" >>,
    << "e","d","i","t"," ","a" >>,
    << "E","D","I","T","O","R","=","v","i"," ","c","r","o","n","t","a","b" >>,
    << "s","u","d","o"," ","v","i","m"," ","a" >>,
    << "n","a","n","o" >>,
    << "l","s"," "," ","-","i" >>,
    << "g","r","e","p"," ","-","i","n"," ","x" >>,
    << "m","y","-","e","d","i","t"," ","x" >>,
    << "r","e","e","d","i","t"," ","x" >>,
    << "n","o","d","e" >>,
    << "n","o","d","e","j","s"," ","x" >>,
    << >>,
    << "o","p","e","n"," ","e","d","i","t","o","r","s" >>,
    << "s","s","h"," ","h" >>,
    << "c","r","o","n","t","a","b"," ","-","e"," ","#"," ","E","d","i","t" >> }

\* what the child writes to a pipe in one data event
StdoutChunks == { << "o","k","\n" >>, << " " >> }
StderrChunks == { << "w","a","r","n","\n" >>, << "\n" >> }

ExitCodes == { 0, 1, 127 }

InitRunner ==
    /\ Entered
    /\ NoStore
    /\ NoLogging
    /\ NoTerminal
    /\ NoCaller
    /\ NoParser
    /\ NoDetector
    /\ runnerCommand \in RunnerCommands
    /\ childProcess = NoObject
    /\ settled = NoObject

\* lines 1698-1722: the process is spawned with the stdio its kind asks for
SpawnChild ==
    /\ childProcess = NoObject
    /\ settled = NoObject
    /\ childProcess' =
          [interactive |-> isInteractiveCommand(runnerCommand),
           stdio |-> IF isInteractiveCommand(runnerCommand)
                     THEN << "inherit", "inherit", "inherit" >>
                     ELSE << "inherit", "pipe", "pipe" >>,
           stdout |-> << >>, stderr |-> << >>,
           stdoutEvents |-> 0, stderrEvents |-> 0]
    /\ UNCHANGED << runnerCommand, settled, notRunner >>

\* lines 1728-1736: a data event of the stdout pipe; an inherited stream has
\* no pipe and no handler
StdoutData ==
    /\ childProcess # NoObject
    /\ settled = NoObject
    /\ childProcess.stdio[2] = "pipe"
    /\ childProcess.stdoutEvents < MaxChunks
    /\ \E output \in StdoutChunks :
          childProcess' = [childProcess EXCEPT !.stdout = @ \o output,
                                               !.stdoutEvents = @ + 1]
    /\ UNCHANGED << runnerCommand, settled, notRunner >>

\* lines 1738-1746: a data event of the stderr pipe
StderrData ==
    /\ childProcess # NoObject
    /\ settled = NoObject
    /\ childProcess.stdio[3] = "pipe"
    /\ childProcess.stderrEvents < MaxChunks
    /\ \E output \in StderrChunks :
          childProcess' = [childProcess EXCEPT !.stderr = @ \o output,
                                               !.stderrEvents = @ + 1]
    /\ UNCHANGED << runnerCommand, settled, notRunner >>

\* lines 1749-1766: the close event resolves the promise
ChildClose ==
    /\ childProcess # NoObject
    /\ settled = NoObject
    /\ \E exitCode \in ExitCodes :
          settled' =
              IF childProcess.interactive
              THEN [resolved |-> TRUE, output |-> JsNull, error |-> JsNull,
                    exitCode |-> exitCode, interactive |-> TRUE]
              ELSE [resolved |-> TRUE,
                    output |-> JsString(Trim(childProcess.stdout)),
                    error |-> IF Trim(childProcess.stderr) # << >>
                              THEN JsString(Trim(childProcess.stderr))
                              ELSE JsNull,
                    exitCode |-> exitCode, interactive |-> FALSE]
    /\ UNCHANGED << runnerCommand, childProcess, notRunner >>

\* lines 1768-1775: the error event rejects the promise
ChildError ==
    /\ childProcess # NoObject
    /\ settled = NoObject
    /\ settled' = [resolved |-> FALSE, output |-> JsNull,
                   error |-> JsString(<< "E","N","O","E","N","T" >>),
                   exitCode |-> 1, interactive |-> FALSE]
    /\ UNCHANGED << runnerCommand, childProcess, notRunner >>

NextRunner ==
    \/ SpawnChild
    \/ StdoutData
    \/ StderrData
    \/ ChildClose
    \/ ChildError

SpecRunner == InitRunner /\ [][NextRunner]_vars

---------------------------------------------------------------------------
(* The terminal tool of main, index.js lines 2044-2137 *)

\* what isTerminalCommand may return (lines 1600-1610)
GeneratedCommands ==
    { [isCommand |-> TRUE, command |-> JsString(c)] :
          c \in { LsLa, << "v","i","m"," ","a" >>, << "r","m"," ","-","i"," ","a" >>,
                  CdPathToX, << >> } }
    \cup { [isCommand |-> FALSE, command |-> JsNull] }

\* what the confirm prompt may give: true, false, or the cancel symbol
ConfirmReplies == { "true", "false", "cancel" }

\* faulty variant: the cancel symbol is not recognised
IsCancelNever(reply) == FALSE

\* isCancel(shouldConfirm), line 2072
IsCancel(reply) == reply = "cancel"

\* truthiness of what the prompt gave; a symbol is truthy
TruthyReply(reply) == reply # "false"

\* how executeCommand may settle (lines 1749-1775)
CommandSettlements ==
    { [resolved |-> TRUE, output |-> JsNull, error |-> JsNull,
       exitCode |-> 0, interactive |-> TRUE],
      [resolved |-> TRUE, output |-> JsString(<< "o","k" >>), error |-> JsNull,
       exitCode |-> 0, interactive |-> FALSE],
      [resolved |-> TRUE, output |-> JsString(<< >>),
       error |-> JsString(<< "n","o" >>), exitCode |-> 1, interactive |-> FALSE],
      [resolved |-> FALSE, output |-> JsNull,
       error |-> JsString(<< "E","N","O","E","N","T" >>), exitCode |-> 1,
       interactive |-> FALSE] }

\* addToShellHistory(command), lines 1653-1689: nothing without
\* preferences.saveCommandHistory, otherwise one entry is appended to the
\* history file of the shell
addToShellHistory(history, prefs, cmd) ==
    IF ~prefs.saveCommandHistory THEN history ELSE Append(history, cmd)

InitTerminal ==
    /\ Entered
    /\ NoStore
    /\ NoLogging
    /\ NoCaller
    /\ NoParser
    /\ NoDetector
    /\ NoRunner
    /\ mainPc = "isTerminalCommand"
    /\ currentPreferences \in
          [showCommandConfirmation : BOOLEAN, enableContextMemory : BOOLEAN,
           saveCommandHistory : BOOLEAN]
    /\ generated = NoObject
    /\ shouldConfirm = "unset"
    /\ shouldExecute = FALSE
    /\ executedCommands = << >>
    /\ logEntries = << >>
    /\ interactions = << >>
    /\ shellHistory = << >>

\* lines 2046-2078: the command is generated and shown; without confirmation
\* shouldExecute stays true
IsTerminalCommand ==
    /\ mainPc = "isTerminalCommand"
    /\ \E g \in GeneratedCommands :
          /\ generated' = g
          /\ IF g.isCommand /\ Truthy(g.command)
             THEN /\ interactions' =
                        IF currentPreferences.enableContextMemory
                        THEN Append(interactions, [command |-> g.command])
                        ELSE interactions
                  /\ shouldExecute' = TRUE
                  /\ mainPc' = IF currentPreferences.showCommandConfirmation
                               THEN "confirm" ELSE "shouldExecute"
             ELSE /\ UNCHANGED << shouldExecute, interactions >>
                  /\ mainPc' = "done"
    /\ UNCHANGED << currentPreferences, shouldConfirm, executedCommands, logEntries,
                    shellHistory, notTerminal >>

\* lines 2067-2077: the confirm prompt
ConfirmExecution ==
    /\ mainPc = "confirm"
    /\ \E reply \in ConfirmReplies :
          /\ shouldConfirm' = reply
          /\ IF IsCancel(reply)
             THEN /\ mainPc' = "done"
                  /\ shouldExecute' = shouldExecute
             ELSE /\ shouldExecute' = TruthyReply(reply)
                  /\ mainPc' = "shouldExecute"
    /\ UNCHANGED << currentPreferences, generated, executedCommands, logEntries,
                    interactions, shellHistory, notTerminal >>

\* lines 2080-2082: if (shouldExecute) executeCommand(command) is called
CallExecuteCommand ==
    /\ mainPc = "shouldExecute"
    /\ shouldExecute
    /\ executedCommands' = Append(executedCommands, generated.command)
    /\ mainPc' = "executeCommand"
    /\ UNCHANGED << currentPreferences, generated, shouldConfirm, shouldExecute,
                    logEntries, interactions, shellHistory, notTerminal >>

\* lines 2126-2135: else branch, the cancellation is logged
LogCancellation ==
    /\ mainPc = "shouldExecute"
    /\ ~shouldExecute
    /\ logEntries' = Append(logEntries,
                            [command |-> generated.command, executed |-> FALSE])
    /\ mainPc' = "done"
    /\ UNCHANGED << currentPreferences, generated, shouldConfirm, shouldExecute,
                    executedCommands, interactions, shellHistory, notTerminal >>

\* lines 2082-2125: the promise settles and the outcome is logged
CommandSettles ==
    /\ mainPc = "executeCommand"
    /\ \E outcome \in CommandSettlements :
          /\ logEntries' = Append(logEntries,
                IF outcome.resolved
                THEN [command |-> generated.command, executed |-> TRUE,
                      result |-> outcome]
                ELSE [command |-> generated.command, executed |-> TRUE,
                      error |-> outcome.error])
          \* lines 2085-2092: updateLastInteraction, only when it resolved
          /\ interactions' =
                IF outcome.resolved /\ currentPreferences.enableContextMemory
                THEN [interactions EXCEPT ![Len(interactions)] =
                         [command |-> generated.command, executed |-> TRUE,
                          output |-> outcome.output, error |-> outcome.error,
                          exitCode |-> outcome.exitCode]]
                ELSE interactions
          \* line 2103: addToShellHistory(command), in the try block after the
          \* await, whatever result.exitCode is
          /\ shellHistory' =
                IF outcome.resolved
                THEN addToShellHistory(shellHistory, currentPreferences,
                                       generated.command)
                ELSE shellHistory
    /\ mainPc' = "done"
    /\ UNCHANGED << currentPreferences, generated, shouldConfirm, shouldExecute,
                    executedCommands, notTerminal >>

NextTerminal ==
    \/ IsTerminalCommand
    \/ ConfirmExecution
    \/ CallExecuteCommand
    \/ LogCancellation
    \/ CommandSettles

SpecTerminal == InitTerminal /\ [][NextTerminal]_vars

---------------------------------------------------------------------------
(* The context file of a terminal session and the invocations of main that
   share it: ContextManager of src/unnamed/part_006, as main of src/index.js
   uses it with enableContextMemory on (lines 2035-2092) *)

\* how many invocations of main share the context file
MaxInvocations == 2

\* how often the clock advances
MaxTicks == 2

Invocations == 1..MaxInvocations

\* the minutes that may pass at once: a moment, or more than half an hour
ClockJumps == { 1, 31 }

\* the numbers the context-ttl prompt accepts are those >= 0, "(0 = never)"
\* (src/index.js lines 1304-1320)
ContextTTLs == { 0, 1, 45 }

\* the numbers the max-entries prompt accepts are 1..20 (src/index.js
\* lines 1322-1340)
ContextSizes == { 1, 2 }

\* value || fallback for a preference that is a number: 0 and undefined are
\* falsy
OrDefault(preferences, key, fallback) ==
    IF Has(preferences, key) /\ preferences[key] # 0
    THEN preferences[key]
    ELSE fallback

\* this.maxEntries of the constructor, line 20
maxEntries(preferences) == OrDefault(preferences, "maxContextEntries", 5)

\* this.ttlMinutes of the constructor, line 21
ttlMinutes(preferences) == OrDefault(preferences, "contextTTL", 30)

\* isStale(context), lines 50-58, at minute `now`
isStale(context, ttl, now) ==
    IF context = NoObject \/ ~Has(context, "lastUpdated")
    THEN TRUE
    ELSE now - context.lastUpdated > ttl

\* loadContext(), lines 64-86: null for an absent file; a stale context is
\* deleted by clearContext() and null is returned; otherwise the context.
\* What it returns is also what the file holds afterwards (NoObject: no file).
loadContext(file, ttl, now) ==
    IF file = NoObject
    THEN NoObject
    ELSE IF isStale(file, ttl, now) THEN NoObject ELSE file

\* faulty variant: the oldest entries are kept
SliceFirst(list, n) ==
    IF Len(list) > n THEN SubSeq(list, 1, n) ELSE list

\* lines 138-140: list.slice(-n) when the list is longer than n
SliceLast(list, n) ==
    IF Len(list) > n THEN SubSeq(list, Len(list) - n + 1, Len(list)) ELSE list

\* Object.assign(target, source)
Assign(target, source) ==
    [key \in DOMAIN target \cup DOMAIN source |->
        IF key \in DOMAIN source THEN source[key] ELSE target[key]]

\* the entry addInteraction pushes, lines 125-133; userInput is the request
\* of invocation `request`, the timestamp and the command text are left out
NewInteraction(request) ==
    [userInput |-> request, executed |-> FALSE, output |-> JsNull,
     error |-> JsNull, exitCode |-> JsNull]

\* addInteraction(userInput, command), lines 114-143: the file afterwards.
\* sessionId and createdAt of a new context are left out.
addInteraction(file, preferences, now, request) ==
    LET loaded == loadContext(file, ttlMinutes(preferences), now)
        context == IF loaded = NoObject THEN [context |-> << >>] ELSE loaded
        pushed == Append(context.context, NewInteraction(request))
    IN  [context |-> SliceLast(pushed, maxEntries(preferences)),
         lastUpdated |-> now]

\* updateLastInteraction(updates), lines 149-169: the file afterwards. The
\* outputs of the model are shorter than maxOutputLength.
updateLastInteraction(file, preferences, now, updates) ==
    LET context == loadContext(file, ttlMinutes(preferences), now)
    IN  IF context = NoObject
        THEN NoObject
        ELSE IF Len(context.context) = 0
        THEN context
        ELSE [context |-> [context.context EXCEPT
                              ![Len(context.context)] = Assign(@, updates)],
              lastUpdated |-> now]

InitContext ==
    /\ Entered
    /\ NoCaller
    /\ NoParser
    /\ NoDetector
    /\ NoRunner
    /\ NoTerminal
    /\ NoLogging
    /\ contextPrefs \in [contextTTL : ContextTTLs, maxContextEntries : ContextSizes]
    /\ contextFile = NoObject
    /\ clock = 0
    /\ ticks = 0
    /\ invocationPc = [request \in Invocations |-> "getMessagesForAI"]
    /\ loadedContext = [request \in Invocations |-> NoObject]
    /\ additions = << >>

\* time passes while some invocation is still running
Advance ==
    /\ ticks < MaxTicks
    /\ \E request \in Invocations : invocationPc[request] # "done"
    /\ \E minutes \in ClockJumps : clock' = clock + minutes
    /\ ticks' = ticks + 1
    /\ UNCHANGED << contextPrefs, contextFile, invocationPc, loadedContext,
                    additions, notStore >>

\* src/index.js lines 2039-2041: getMessagesForAI() loads the context
GetMessagesForAI(request) ==
    /\ invocationPc[request] = "getMessagesForAI"
    /\ LET context == loadContext(contextFile, ttlMinutes(contextPrefs), clock)
       IN  /\ contextFile' = context
           /\ loadedContext' = [loadedContext EXCEPT ![request] = context]
    /\ invocationPc' = [invocationPc EXCEPT ![request] = "addInteraction"]
    /\ UNCHANGED << contextPrefs, clock, ticks, additions, notStore >>

\* src/index.js lines 2058-2061: the entry is added before confirmation
AddInteraction(request) ==
    /\ invocationPc[request] = "addInteraction"
    /\ contextFile' = addInteraction(contextFile, contextPrefs, clock, request)
    /\ additions' = Append(additions, request)
    /\ invocationPc' = [invocationPc EXCEPT ![request] = "confirm"]
    /\ UNCHANGED << contextPrefs, clock, ticks, loadedContext, notStore >>

\* src/index.js lines 2066-2080: the command is confirmed or declined
ConfirmOrDecline(request) ==
    /\ invocationPc[request] = "confirm"
    /\ \E confirmed \in BOOLEAN :
          invocationPc' = [invocationPc EXCEPT ![request] =
                              IF confirmed THEN "executeCommand" ELSE "done"]
    /\ UNCHANGED << contextPrefs, contextFile, clock, ticks, loadedContext,
                    additions, notStore >>

\* src/index.js lines 2082-2092 and 2117: executeCommand settles; when it
\* resolved updateLastInteraction is called with the result
CommandFinishes(request) ==
    /\ invocationPc[request] = "executeCommand"
    /\ \E outcome \in CommandSettlements :
          contextFile' =
              IF outcome.resolved
              THEN updateLastInteraction(contextFile, contextPrefs, clock,
                       [executed |-> TRUE, output |-> outcome.output,
                        error |-> outcome.error, exitCode |-> JsNumber(outcome.exitCode)])
              ELSE contextFile
    /\ invocationPc' = [invocationPc EXCEPT ![request] = "done"]
    /\ UNCHANGED << contextPrefs, clock, ticks, loadedContext, additions,
                    notStore >>

NextContext ==
    \/ Advance
    \/ \E request \in Invocations : GetMessagesForAI(request)
    \/ \E request \in Invocations : AddInteraction(request)
    \/ \E request \in Invocations : ConfirmOrDecline(request)
    \/ \E request \in Invocations : CommandFinishes(request)

SpecContext == InitContext /\ [][NextContext]_vars

---------------------------------------------------------------------------
(* The log directory and the Logger (src/utils/update-checker.js lines
   170-262), which main constructs once per invocation (src/index.js 2036) *)

\* how often the day changes
MaxDays == 2

\* the days that may pass at once: one, or more than a month
DayJumps == { 1, 31 }

\* the numbers the log-retention prompt accepts are those >= 0,
\* "(0 = never delete)" (src/index.js lines 1342-1360)
LogRetentions == { 0, 1, 45 }

\* the files the log directory may hold at first: a log file and a file of
\* another kind, both last modified on day 0
FirstFiles ==
    { [endsWithLog |-> TRUE, mtime |-> 0], [endsWithLog |-> FALSE, mtime |-> 0] }

\* cleanOldLogs(), lines 235-262: the files left in the directory on day `now`
cleanOldLogs(files, enabled, retentionDays, now) ==
    IF ~enabled \/ retentionDays = 0
    THEN files
    ELSE { file \in files :
             ~(file.endsWithLog /\ file.mtime < now - retentionDays) }

InitLogger ==
    /\ Entered
    /\ NoCaller
    /\ NoParser
    /\ NoDetector
    /\ NoRunner
    /\ NoTerminal
    /\ NoStore
    /\ loggerPreferences \in
          [enableLogging : BOOLEAN, logRetentionDays : LogRetentions]
    /\ logger = NoObject
    /\ today = 0
    /\ days = 0
    /\ logFiles \in SUBSET FirstFiles

\* days pass between invocations
DayPasses ==
    /\ days < MaxDays
    /\ \E passed \in DayJumps : today' = today + passed
    /\ days' = days + 1
    /\ logger' = NoObject
    /\ UNCHANGED << loggerPreferences, logFiles, notLogging >>

\* new Logger(preferences), lines 174-183: the fields are set and, when
\* logging is enabled, ensureLogDir() (which disables the logger when the
\* directory cannot be created) and cleanOldLogs() run
NewLogger ==
    /\ logger = NoObject
    /\ \E created \in BOOLEAN :
          LET enabled == loggerPreferences.enableLogging /\ created
              retentionDays == OrDefault(loggerPreferences, "logRetentionDays", 30)
          IN  /\ logger' = [enabled |-> enabled, retentionDays |-> retentionDays]
              /\ logFiles' = cleanOldLogs(logFiles, enabled, retentionDays, today)
    /\ UNCHANGED << loggerPreferences, today, days, notLogging >>

\* log(entry), lines 212-230: a line is appended to the log file of today;
\* nothing happens when the logger is not enabled
WriteLog ==
    /\ logger # NoObject
    /\ logger.enabled
    \* a second line on the same day leaves the directory as it is
    /\ [endsWithLog |-> TRUE, mtime |-> today] \notin logFiles
    /\ logFiles' = logFiles \cup { [endsWithLog |-> TRUE, mtime |-> today] }
    /\ UNCHANGED << loggerPreferences, logger, today, days, notLogging >>

NextLogger ==
    \/ DayPasses
    \/ NewLogger
    \/ WriteLog

SpecLogger == InitLogger /\ [][NextLogger]_vars

---------------------------------------------------------------------------
(* The claims *)

Last(seq) == seq[Len(seq)]

\* the RunRecord rec is for the same (description, command) pair as step s,
\* SUCCEEDED and verified
SucceededAndVerifiedFor(rec, s) ==
    /\ SameProp(rec.step, s, "description")
    /\ SameProp(rec.step, s, "command")
    /\ rec.result.success
    /\ rec.verification.verified

\* C1: every command invocation belongs to a step (original or revised) whose
\* certainty was at least the threshold when executeStep examined it; a step
\* below the threshold never reaches the command runner.
C1_RunOnlyWithAdequateCertainty ==
    pc = "executing" =>
        /\ Has(step, "certainty")
        /\ step.certainty >= certaintyThreshold

\* C2: a command is invoked only as the immediate effect of an explicit yes to
\* the confirmation prompt that showed that same command; a prompt answered
\* otherwise yields the skipped result and no invocation follows for that step.
C2_NoRunWithoutConfirmation ==
    [][ /\ (cmdRuns' # cmdRuns) =>
               /\ pc = "confirmCommand"
               /\ input' = "y"
               /\ pc' = "executing"
               /\ command = step.command
               /\ command' = command
               /\ cmdRuns' = cmdRuns + 1
        /\ (pc' = "executing" /\ pc # "executing") => cmdRuns' = cmdRuns + 1
        /\ (pc = "confirmCommand" /\ input' # "y") =>
               /\ cmdRuns' = cmdRuns
               /\ pc' # "executing"
               /\ result' = [success |-> FALSE, skipped |-> TRUE, command |-> command]
        /\ Has(result, "skipped") =>
               /\ cmdRuns' = cmdRuns
               /\ pc' \notin { "executeStep", "confirmCommand", "executing" }
      ]_vars

\* a command is running after a yes, and an earlier command was declined
C2_Witness ==
    /\ pc = "executing"
    /\ input = "y"
    /\ cmdRuns = 1
    /\ Len(results) = 1
    /\ Has(results[1].result, "skipped")

\* C3: declining the plan-level confirmation ends the run cancelled before any
\* step: no executeStep call, no command, no RunRecord, and the result is
\* {success:false, reason:'Plan execution cancelled by user'}; a run that ends
\* otherwise and not on an error ends completed with success=true, all steps
\* processed or stopped by the user.
C3_CancelledOrCompleted ==
    [][ /\ (pc = "confirmPlan" /\ input' # "y") =>
               /\ pc' = "done"
               /\ ret' = [success |-> FALSE, reason |-> "Plan execution cancelled by user"]
               /\ stepCalls' = 0
               /\ cmdRuns' = 0
               /\ results' = << >>
        /\ (pc' = "done" /\ pc # "done" /\ pc # "confirmPlan") =>
               \/ /\ ~ret'.success
                  /\ Has(ret', "error")
               \/ /\ ret' = [success |-> TRUE, results |-> results]
                  /\ \/ pc = "loop" /\ i >= Len(plan)
                     \/ pc = "askContinue" /\ input' # "y"
      ]_vars

\* a plan of two steps was shown and the user declined it
C3_Witness ==
    /\ pc = "done"
    /\ Has(ret, "reason")
    /\ input = "n"
    /\ Len(plan) = 2
    /\ stepCalls = 0

\* C4: a step with a command that reaches the confirmation prompt ends in
\* exactly one of three results: confirmed and exit code 0 gives {success:true,
\* result, command}; confirmed and a nonzero exit or spawn error gives
\* {success:false, error, command} with skipped unset; declined gives
\* {success:false, skipped:true, command}.  No recorded result is both.
C4_ThreeOutcomes ==
    [][ /\ (pc = "confirmCommand" /\ input' = "y") => pc' = "executing"
        /\ (pc = "confirmCommand" /\ input' = "n") =>
               result' = [success |-> FALSE, skipped |-> TRUE, command |-> command]
        /\ (pc = "executing" /\ pc' # "executing") =>
               IF Has(exited', "code") /\ exited'.code = 0
               THEN \E stdout \in Outputs :
                       result' = [success |-> TRUE, result |-> stdout, command |-> command]
               ELSE \E message \in ErrorMessages :
                       result' = [success |-> FALSE, error |-> message, command |-> command]
        /\ \A k \in 1..Len(results') :
               /\ Has(results'[k].result, "skipped") =>
                      ~results'[k].result.success /\ ~Has(results'[k].result, "error")
               /\ Has(results'[k].result, "error") =>
                      ~results'[k].result.success /\ ~Has(results'[k].result, "skipped")
      ]_vars

\* one run recorded a declined command and a command that failed at run time
C4_Witness ==
    \E j, k \in 1..Len(results) :
        /\ Has(results[j].result, "skipped")
        /\ Has(results[k].result, "error")
        /\ exited # NoObject

\* C5: when the controller reaches a step whose (description, command) pair
\* equals that of a SUCCEEDED and verified RunRecord, it calls neither
\* executeStep nor the command runner; it appends a record that reuses the
\* earlier result and verification and moves to the next index.
C5_Dedup ==
    [][ ( /\ pc = "loop"
          /\ i < Len(plan)
          /\ \E k \in 1..Len(results) : SucceededAndVerifiedFor(results[k], plan[i + 1]) )
        => /\ pc' = "loop"
           /\ stepCalls' = stepCalls
           /\ cmdRuns' = cmdRuns
           /\ i' = i + 1
           /\ plan' = plan
           /\ \E k \in 1..Len(results) :
                 /\ SucceededAndVerifiedFor(results[k], plan[i + 1])
                 /\ results' = Append(results,
                                      [step |-> plan[i + 1],
                                       result |-> results[k].result,
                                       verification |-> results[k].verification])
      ]_vars

\* the second step of the plan was served from the record of the first
C5_Witness ==
    /\ pc = "loop"
    /\ i = 2
    /\ Len(results) = 2
    /\ stepCalls = 1
    /\ cmdRuns = 1
    /\ results[1].verification.verified
    /\ Has(results[1].result, "command")
    /\ results[2].result = results[1].result
    /\ results[2].verification = results[1].verification

\* C6: after a hard failure, when the user accepts creating a new plan and
\* accepts using it, the whole plan is replaced by the new plan's steps, all
\* RunRecords are cleared and the loop restarts at index 0 of the new plan;
\* the failed step gets no RunRecord and is not verified.
C6_AdoptedReplan ==
    [][ /\ (pc' = "createNewPlanAfterFailure" /\ pc # "createNewPlanAfterFailure") =>
               /\ pc = "askCreateNewPlan"
               /\ input' # "n"
               /\ ~result.success
               /\ ~Has(result, "skipped")
        /\ (pc' = "askUseNewPlan" /\ pc # "askUseNewPlan") =>
               pc = "createNewPlanAfterFailure"
        /\ (pc = "askUseNewPlan" /\ input' # "n") =>
               /\ plan' = newPlan
               /\ results' = << >>
               /\ i' = 0
               /\ pc' = "loop"
               /\ verification = NoObject
        /\ (pc = "loop" /\ pc' = "executeStep") => step' = plan[i + 1]
      ]_vars

\* the second step failed, a two-step plan was adopted, and the loop is back
\* at index 0 with no records
C6_Witness ==
    /\ pc = "loop"
    /\ i = 0
    /\ replans = 1
    /\ stepCalls = 2
    /\ results = << >>
    /\ Len(plan) = 2
    /\ input # "n"

\* C7: when a step FAILED and the user declines the replan (declines creating
\* a new plan, or declines using the proposed one), the plan and the existing
\* RunRecords are unchanged and the step goes to verification, which gives
\* verified=false with reason 'Step execution failed'; the record of the
\* failed step is appended and the continue/stop question is asked.
C7_DeclinedReplan ==
    [][ /\ (pc \in { "askCreateNewPlan", "askUseNewPlan" } /\ input' = "n") =>
               /\ plan' = plan
               /\ results' = results
               /\ result' = result
               /\ i' = i
               /\ pc' = "verify"
        /\ (pc = "verify" /\ ~result.success /\ ~Has(result, "skipped")) =>
               /\ plan' = plan
               /\ results' = Append(results,
                                    [step |-> plan[i + 1],
                                     result |-> result,
                                     verification |->
                                        [verified |-> FALSE,
                                         reason |-> "Step execution failed"]])
               /\ pc' = "askContinue"
      ]_vars

\* the second step failed, a proposed new plan was declined, and the failed
\* step is recorded unverified behind the record of the first step
C7_Witness ==
    /\ pc = "askContinue"
    /\ input = "n"
    /\ replans = 1
    /\ newPlan # << >>
    /\ Len(results) = 2
    /\ Has(results[2].result, "error")
    /\ results[2].verification.reason = "Step execution failed"

\* C8: every unverified step leads to the continue question, whose default is
\* stop: unless the user answers yes the run ends at this index, no later step
\* is executed, and the run completes with success=true; on yes the controller
\* goes on to index i+1 with the plan unchanged.
C8_ContinueOrStop ==
    [][ /\ ( /\ results' # results
             /\ results' # << >>
             /\ ~Last(results').verification.verified ) => pc' = "askContinue"
        /\ pc = "askContinue" =>
               /\ ~Last(results).verification.verified
               /\ plan' = plan
               /\ results' = results
               /\ cmdRuns' = cmdRuns
               /\ stepCalls' = stepCalls
               /\ IF input' = "y"
                  THEN pc' = "loop" /\ i' = i + 1
                  ELSE pc' = "done" /\ ret' = [success |-> TRUE, results |-> results]
        /\ pc = "done" => pc' = "done" /\ cmdRuns' = cmdRuns /\ stepCalls' = stepCalls
      ]_vars

\* the user pressed Enter at the continue question with steps still to go
C8_Witness ==
    /\ pc = "done"
    /\ input = ""
    /\ Has(ret, "results")
    /\ Len(ret.results) > 0
    /\ Len(ret.results) < Len(plan)
    /\ ~Last(ret.results).verification.verified

\* C9: when step i is verified and its plan validation reports needsUpdate,
\* the user is asked; an approved revision replaces exactly Plan.steps[i+1..]
\* by updatedSteps and leaves Plan.steps[0..i] and all RunRecords unchanged, a
\* declined revision leaves the plan unchanged; both continue at index i+1.
C9_PartialRevision ==
    [][ /\ ( /\ results' # results
             /\ results' # << >>
             /\ Last(results').verification.verified
             /\ Has(Last(results').verification, "planValidation")
             /\ Last(results').verification.planValidation.needsUpdate
             /\ pc # "loop" ) => pc' = "askUseUpdatedPlan"
        /\ pc = "askUseUpdatedPlan" =>
               LET updatedSteps == Last(results).verification.planValidation.updatedSteps
               IN  /\ Len(results) = i + 1
                   /\ results' = results
                   /\ i' = i + 1
                   /\ pc' = "loop"
                   /\ IF input' # "n"
                      THEN /\ Len(plan') = i + 1 + Len(updatedSteps)
                           /\ SubSeq(plan', 1, i + 1) = SubSeq(plan, 1, i + 1)
                           /\ SubSeq(plan', i + 2, Len(plan')) = updatedSteps
                      ELSE plan' = plan
      ]_vars

\* the remainder after the first step was replaced by two other steps
C9_Witness ==
    /\ pc = "loop"
    /\ i = 1
    /\ Len(results) = 1
    /\ input = "y"
    /\ Has(results[1].verification, "planValidation")
    /\ results[1].verification.planValidation.needsUpdate
    /\ results[1].verification.planValidation.updatedSteps = << ReportOnly, EnterPlaceholder >>
    /\ Len(plan) = 3
    /\ SubSeq(plan, 2, 3) = << ReportOnly, EnterPlaceholder >>

\* C10: for a result with success=false the verifier returns verified=false at
\* once, with no completion call and no plan validation; the reason is 'Step
\* was skipped' when result.skipped is set and 'Step execution failed'
\* otherwise.
C10_ShortCircuit ==
    [][ (pc = "verify" /\ ~result.success) =>
            /\ pc' = "askContinue"
            /\ verification' =
                  [verified |-> FALSE,
                   reason |-> IF Has(result, "skipped")
                              THEN "Step was skipped" ELSE "Step execution failed"]
            /\ Last(results').verification = verification'
            /\ revisions' = revisions
            /\ plan' = plan
      ]_vars

\* a declined command with steps remaining was recorded as skipped
C10_Witness ==
    /\ pc = "askContinue"
    /\ verification = [verified |-> FALSE, reason |-> "Step was skipped"]
    /\ Has(result, "skipped")
    /\ i < Len(plan) - 1

\* C11: the verifier attaches a planValidation to its result exactly when the
\* step was judged verified and at least one step remains after it; only
\* then is the plan-validation call made and a revision offered;
\* validateRemainingPlan with no remaining steps returns needsUpdate=false
\* with an empty list whatever the completion client would have answered.
C11_PlanValidationAttached ==
    [][ /\ (results' # results /\ results' # << >> /\ pc # "loop") =>
               LET v == Last(results').verification
               IN  Has(v, "planValidation") <=> (v.verified /\ i < Len(plan) - 1)
        /\ (pc' = "validateRemainingPlan" /\ pc # "validateRemainingPlan") =>
               /\ i < Len(plan) - 1
               /\ verification'.verified
        /\ (revisions' # revisions \/ pc' = "askUseUpdatedPlan") =>
               /\ i < Len(plan) - 1
               /\ result.success
               /\ Last(results').verification.verified
        /\ \A answer \in ModelValidations \cup { Thrown } :
               validateRemainingPlan(<< >>, answer) =
                   [updatedSteps |-> << >>, needsUpdate |-> FALSE]
      ]_vars

\* the first step was verified and its record carries a planValidation, the
\* last step was verified and its record carries none
C11_Witness ==
    /\ Len(plan) = 2
    /\ Len(results) = 2
    /\ results[1].step.description # results[2].step.description
    /\ results[1].verification.verified
    /\ Has(results[1].verification, "planValidation")
    /\ results[2].verification.verified
    /\ ~Has(results[2].verification, "planValidation")

\* some pattern of PLACEHOLDER_PATTERNS matches the text
MatchesAny(text) ==
    \E k \in 1..Len(PLACEHOLDER_PATTERNS) : Matches(PLACEHOLDER_PATTERNS[k], text)

\* the step's command or description has a placeholder match
HasPlaceholder(s) ==
    \/ TruthyText(s, "command") /\ MatchesAny(s.command)
    \/ MatchesAny(TextOf(s, "description"))

\* C12: when the plan has been generated and before it is shown, every step of
\* the initial plan whose command or description matches a placeholder pattern
\* has certainty = min(model certainty, threshold - 0.1) and carries the match
\* list (placeholders for the command, descriptionPlaceholders for the
\* description); when executeStep is called for such a step it goes to
\* clarification.
C12_InitialPlanClamped ==
    [][ /\ (pc = "createPlan" /\ pc' = "confirmPlan") =>
               \E steps \in StepLists(MaxSteps) :
                  /\ Len(plan') = Len(steps)
                  /\ \A k \in 1..Len(steps) :
                        /\ SameProp(plan'[k], steps[k], "description")
                        /\ SameProp(plan'[k], steps[k], "command")
                        /\ (TruthyText(steps[k], "command") /\ MatchesAny(steps[k].command)) =>
                              /\ plan'[k].certainty =
                                    Min(steps[k].certainty, certaintyThreshold - 1)
                              /\ Has(plan'[k], "placeholders")
                              /\ Len(plan'[k].placeholders) > 0
                        /\ MatchesAny(TextOf(steps[k], "description")) =>
                              /\ plan'[k].certainty =
                                    Min(steps[k].certainty, certaintyThreshold - 1)
                              /\ Has(plan'[k], "descriptionPlaceholders")
                              /\ Len(plan'[k].descriptionPlaceholders) > 0
        /\ pc = "confirmPlan" =>
               \A k \in 1..Len(plan) :
                  HasPlaceholder(plan[k]) => plan[k].certainty <= certaintyThreshold - 1
        /\ ( /\ pc = "executeStep"
             /\ depth = 0
             /\ replans = 0
             /\ revisions = 0
             /\ HasPlaceholder(step) ) => pc' = "askForClarification"
      ]_vars

\* a plan with a placeholder in the description of its first step and one in
\* the command of its second was clamped, and the first step is at the
\* clarification
C12_Witness ==
    /\ pc = "askForClarification"
    /\ depth = 0
    /\ i = 0
    /\ Len(plan) = 2
    /\ step = plan[1]
    /\ Has(plan[1], "descriptionPlaceholders")
    /\ plan[1].certainty = certaintyThreshold - 1
    /\ Has(plan[2], "placeholders")
    /\ plan[2].placeholders[1].match = << "p","a","t","h","/","t","o","/" >>
    /\ plan[2].certainty = certaintyThreshold - 1

\* C13: whenever executeStep first attempts a step of Plan.steps that has a
\* placeholder match in its command or description, the step's certainty is
\* at most threshold - 0.1; this includes the steps of an adopted new plan and
\* the updatedSteps of an approved revision.
C13_PlaceholderStepsClamped ==
    (pc = "executeStep" /\ depth = 0 /\ HasPlaceholder(step)) =>
        /\ Has(step, "certainty")
        /\ step.certainty <= certaintyThreshold - 1

\* C14: a step without a literal placeholder keeps its model-reported
\* certainty through the post-processing: the step with command
\* `cd example_project && npm install` keeps certainty 0.9 and gets no
\* placeholders entry, the step with `cd path/to/project && npm install` is
\* clamped below 0.7 and carries a placeholders entry for `path/to/`.
C14_ExampleProjectPreserved ==
    pc = "confirmPlan" =>
        \A k \in 1..Len(plan) :
           /\ plan[k].command = CdExampleProject =>
                 /\ plan[k].certainty = 9
                 /\ ~Has(plan[k], "placeholders")
           /\ plan[k].command = CdPathToProject =>
                 /\ plan[k].certainty < certaintyThreshold
                 /\ Has(plan[k], "placeholders")
                 /\ \E j \in 1..Len(plan[k].placeholders) :
                       plan[k].placeholders[j].match = << "p","a","t","h","/","t","o","/" >>

\* the places where the controller waits for the completion client in plan
\* generation, clarification, outcome verification and failure replanning
LlmCalls == { "createPlan", "askForClarification", "verifyCompletion",
              "createNewPlanAfterFailure" }

\* where each of these calls goes on when the answer could be used
Continuations(call) ==
    CASE call = "createPlan" -> { "confirmPlan" }
      [] call = "askForClarification" -> { "executeStep" }
      [] call = "verifyCompletion" ->
            { "validateRemainingPlan", "askContinue", "askUseUpdatedPlan", "loop" }
      [] call = "createNewPlanAfterFailure" -> { "askUseNewPlan" }

\* C15: a failed or malformed answer in plan generation, clarification,
\* outcome verification or failure replanning is not retried: the call either
\* goes on with a usable answer or the run ends at once with {success:false,
\* error}; an error is reported only by a run that has ended, and after it no
\* step is started and no command is run.
C15_LlmFailureAborts ==
    [][ /\ pc \in LlmCalls =>
               /\ pc' # pc
               /\ \/ pc' \in Continuations(pc) /\ ret' = ret
                  \/ /\ pc' = "done"
                     /\ ~ret'.success
                     /\ Has(ret', "error")
                     /\ DOMAIN ret' = { "success", "error" }
                     /\ results' = results
                     /\ cmdRuns' = cmdRuns
                     /\ stepCalls' = stepCalls
        /\ Has(ret', "error") => pc' = "done"
        /\ pc = "done" => pc' = "done" /\ cmdRuns' = cmdRuns /\ stepCalls' = stepCalls
      ]_vars

\* the verification or clarification of the second step failed after the first
\* step had run, and the run ended with the error
C15_Witness ==
    /\ pc = "done"
    /\ ret = [success |-> FALSE, error |-> LlmError]
    /\ Len(plan) = 2
    /\ Len(results) = 1
    /\ stepCalls = 2
    /\ cmdRuns >= 1

\* C16: the model's output is validated before use, so a step whose certainty
\* is missing or not a number in [0,1] never has its command offered for
\* confirmation (nor executed); the run aborts instead.
C16_CertaintyValidatedBeforeUse ==
    pc \in { "confirmCommand", "executing" } =>
        /\ Has(step, "certainty")
        /\ step.certainty \in 0..10

\* a step is in the hands of executeStep
ExecutorStates == { "executeStep", "askForClarification", "confirmCommand", "executing" }

\* the result of a step is being verified or a decision about it is pending
ResolvingStates == { "verify", "verifyCompletion", "validateRemainingPlan",
                     "askContinue", "askUseUpdatedPlan", "askCreateNewPlan",
                     "createNewPlanAfterFailure", "askUseNewPlan" }

\* C17: execution is strictly sequential: an executeStep call begins only at
\* the head of the loop, when nothing of an earlier step is pending (no result
\* awaiting verification, no verification or proposed plan awaiting a
\* decision) and every earlier index of the plan has its record; while a step
\* is executing or being resolved no other call begins and, outside the
\* confirmation of that one step, no command starts.
C17_StrictlySequential ==
    [][ /\ stepCalls' # stepCalls =>
               /\ stepCalls' = stepCalls + 1
               /\ pc = "loop"
               /\ pc' = "executeStep"
               /\ result = NoObject
               /\ exited = NoObject
               /\ verification = NoObject
               /\ newPlan = << >>
               /\ Len(results) = i
               /\ step' = plan[i + 1]
        /\ pc \in ExecutorStates \cup ResolvingStates => stepCalls' = stepCalls
        /\ pc \in ResolvingStates => cmdRuns' = cmdRuns
        /\ cmdRuns' # cmdRuns => pc = "confirmCommand" /\ cmdRuns' = cmdRuns + 1
      ]_vars

\* the second call begins after the first step ran, was verified, and the
\* revision proposed after it was decided
C17_Witness ==
    /\ pc = "executeStep"
    /\ depth = 0
    /\ stepCalls = 2
    /\ cmdRuns = 1
    /\ revisions = 1
    /\ i = 1
    /\ Len(results) = 1
    /\ result = NoObject

\* C18: failure replanning is offered, and createNewPlanAfterFailure invoked,
\* only for a hard failure (success=false and not skipped): a skipped step,
\* a successful step and a successful but unverified step never get there.
C18_ReplanOnlyOnHardFailure ==
    [][ /\ (pc' = "askCreateNewPlan" /\ pc # "askCreateNewPlan") =>
               /\ ~result'.success
               /\ ~Has(result', "skipped")
               /\ Has(result', "error")
        /\ pc' \in { "askCreateNewPlan", "createNewPlanAfterFailure", "askUseNewPlan" } =>
               /\ ~result'.success
               /\ ~Has(result', "skipped")
        /\ replans' # replans =>
               /\ pc = "askCreateNewPlan"
               /\ ~result.success
               /\ ~Has(result, "skipped")
        /\ (pc \in ExecutorStates /\ pc' \notin ExecutorStates /\ pc' # "done"
              /\ (result'.success \/ Has(result', "skipped"))) => pc' = "verify"
        /\ (pc \in { "verifyCompletion", "validateRemainingPlan", "askContinue" }) =>
               pc' \notin { "askCreateNewPlan", "createNewPlanAfterFailure", "askUseNewPlan" }
      ]_vars

\* a replan is being created for the failed second step although the first
\* step had been declined by the user and was only recorded as skipped
C18_Witness ==
    /\ pc = "createNewPlanAfterFailure"
    /\ replans = 1
    /\ Has(result, "error")
    /\ Len(results) = 1
    /\ Has(results[1].result, "skipped")
    /\ i = 1

\* C19: the dedup supports the restart after a full replan: when an adopted
\* new plan restarts the loop at index 0, each of its steps whose
\* (description, command) equals that of a step that SUCCEEDED and was
\* verified earlier in the run still has that record to be reused from, so
\* that its command is not run a second time.
C19_DedupAcrossReplan ==
    [][ (pc = "askUseNewPlan" /\ pc' = "loop") =>
            \A n \in 1..Len(plan') :
               (\E k \in 1..Len(results) : SucceededAndVerifiedFor(results[k], plan'[n]))
                  => (\E k \in 1..Len(results') : SucceededAndVerifiedFor(results'[k], plan'[n]))
      ]_vars

C21_NoCommandSucceeds ==
    [][ ( /\ pc = "executeStep"
          /\ Has(step, "certainty")
          /\ step.certainty >= certaintyThreshold
          /\ ~TruthyText(step, "command") ) =>
            /\ result' = [success |-> TRUE]
            /\ pc' = "verify"
            /\ input' = input
            /\ confirm' = confirm
            /\ cmdRuns' = cmdRuns
            /\ depth' = depth
      ]_vars

\* the step that only reports has returned {success:true} and no command was
\* run in this run
C21_Witness ==
    /\ pc = "verify"
    /\ step = ReportOnly
    /\ result = [success |-> TRUE]
    /\ cmdRuns = 0
    /\ stepCalls = 1

\* C22: clarification has no depth limit: a step with certainty < threshold,
\* at whatever depth, goes to another clarification round and runs no
\* command; the cycle is left for the confirmation prompt or the no-command
\* result exactly at the first round whose revised step has certainty >=
\* threshold.
C22_ClarificationCycle ==
    [][ /\ ( /\ pc = "executeStep"
             /\ Has(step, "certainty")
             /\ step.certainty < certaintyThreshold ) =>
               /\ pc' = "askForClarification"
               /\ cmdRuns' = cmdRuns
               /\ result' = result
        /\ ( /\ pc = "executeStep"
             /\ depth > 0
             /\ Has(step, "certainty")
             /\ step.certainty >= certaintyThreshold ) =>
               pc' \in { "confirmCommand", "verify" }
        /\ ( /\ pc = "executeStep"
             /\ depth > 0
             /\ pc' # "askForClarification" ) =>
               /\ Has(step, "certainty")
               /\ step.certainty >= certaintyThreshold
        /\ pc = "askForClarification" =>
               /\ pc' \in { "executeStep", "done" }
               /\ cmdRuns' = cmdRuns
      ]_vars

\* C23 as the specification states it: in plan generation and in failure
\* replanning a response with a steps property is used as is, a bare array
\* becomes {steps: array}, any other bare object becomes {steps:[object]}, and
\* every plan returned has a steps property.
C23_NormalizationAsStated ==
    (returnedPlan # NoObject /\ ~Has(returnedPlan, "thrown")) =>
        /\ (parsedContent.js = "object" /\ Has(parsedContent.props, "steps")) =>
               returnedPlan = parsedContent
        /\ parsedContent.js = "array" =>
               returnedPlan = JsObject([steps |-> parsedContent])
        /\ (parsedContent.js = "object" /\ ~Has(parsedContent.props, "steps")) =>
               returnedPlan = JsObject([steps |-> JsArray(<< parsedContent >>)])
        /\ Has(returnedPlan.props, "steps")

\* C23, amended: a response whose steps property is truthy is used as is; a
\* bare array becomes {steps: array}; every other value that is not null,
\* an object whose steps property is null, false, 0 or '' included, becomes
\* {steps:[value]}; so every plan returned has a truthy steps property.
C23_Normalization ==
    (returnedPlan # NoObject /\ ~Has(returnedPlan, "thrown")) =>
        /\ ( /\ parsedContent.js = "object"
             /\ Has(parsedContent.props, "steps")
             /\ Truthy(parsedContent.props.steps) ) =>
               returnedPlan = parsedContent
        /\ parsedContent.js = "array" =>
               returnedPlan = JsObject([steps |-> parsedContent])
        /\ ( /\ parsedContent.js # "array"
             /\ ~( /\ parsedContent.js = "object"
                   /\ Has(parsedContent.props, "steps")
                   /\ Truthy(parsedContent.props.steps) ) ) =>
               returnedPlan = JsObject([steps |-> JsArray(<< parsedContent >>)])
        /\ returnedPlan.js = "object"
        /\ Has(returnedPlan.props, "steps")
        /\ Truthy(returnedPlan.props.steps)

\* failure replanning parsed {steps: null} and returned it wrapped as the only
\* step of the plan
C23_Witness ==
    /\ planFunction = "createNewPlanAfterFailure"
    /\ parsedContent = JsObject([steps |-> JsNull])
    /\ returnedPlan = JsObject([steps |-> JsArray(<< parsedContent >>)])

\* position of a reported pattern in PLACEHOLDER_PATTERNS
PatternIndex(source) ==
    CHOOSE k \in 1..Len(PLACEHOLDER_PATTERNS) : PLACEHOLDER_PATTERNS[k].source = source

\* the text `part` stands somewhere in `text`
Occurs(part, text) ==
    \E pos \in 1..Len(text) :
        /\ pos + Len(part) - 1 <= Len(text)
        /\ SubSeq(text, pos, pos + Len(part) - 1) = part

CdPathToRepoGitPull == << "c","d"," ","/","p","a","t","h","/","t","o","/","r","e","p","o"," ","&","&"," ","g","i","t"," ","p","u","l","l" >>
PathTo == << "p","a","t","h","/","t","o","/" >>

\* C24: detectPlaceholders reports every pattern of the ordered list that
\* matches the text, not just the first one: detected is true iff the list of
\* reported patterns is non-empty, the entries are in pattern-list order and
\* each carries a match that stands in the text; 'cd /path/to/repo && git
\* pull' is detected with a match path/to/; 'ls -la' is not detected; empty
\* or undefined input gives detected = false and nothing else.
C24_DetectReturnsEveryMatch ==
    detection # NoObject =>
        /\ textArg = << >> => detection = [detected |-> FALSE]
        /\ textArg # << >> =>
              LET patterns == detection.patterns IN
              /\ detection.detected <=> Len(patterns) > 0
              /\ \A k \in 1..Len(PLACEHOLDER_PATTERNS) :
                    Matches(PLACEHOLDER_PATTERNS[k], textArg) <=>
                        \E j \in 1..Len(patterns) :
                            patterns[j].pattern = PLACEHOLDER_PATTERNS[k].source
              /\ \A j \in 1..Len(patterns) : \A h \in (j + 1)..Len(patterns) :
                    PatternIndex(patterns[j].pattern) < PatternIndex(patterns[h].pattern)
              /\ \A j \in 1..Len(patterns) :
                    /\ patterns[j].match # << >>
                    /\ Occurs(patterns[j].match, textArg)
        /\ textArg = CdPathToRepoGitPull =>
              /\ detection.detected
              /\ \E j \in 1..Len(detection.patterns) : detection.patterns[j].match = PathTo
        /\ textArg = LsLa => ~detection.detected
        /\ Occurs(<< "f","o","o" >>, textArg) =>
              \E j \in 1..Len(detection.patterns) :
                  detection.patterns[j].pattern = "/foo|bar|baz/i"

\* the example text was given and two patterns were reported for it
C24_Witness ==
    /\ textArg = CdPathToRepoGitPull
    /\ detection # NoObject
    /\ detection.detected
    /\ Len(detection.patterns) = 2

\* C25: the plan executed by the agentic tool has at most 10 steps, at
\* creation and after any adopted replan or approved revision of the remaining
\* steps.
C25_PlanAtMostTenSteps == Len(plan) <= MaxPlanSteps

\* the text with every letter in lower case
Fold(text) == [k \in 1..Len(text) |-> ToLower(text[k])]

\* the first space-separated token of the text is `word`
FirstTokenIs(text, word) ==
    /\ Len(text) >= Len(word)
    /\ SubSeq(text, 1, Len(word)) = word
    /\ Len(text) = Len(word) \/ text[Len(word) + 1] = " "

\* one of the space-separated tokens of the text is `word`
HasToken(text, word) ==
    \E a \in 1..Len(text) :
        LET b == a + Len(word) - 1 IN
        /\ b <= Len(text)
        /\ SubSeq(text, a, b) = word
        /\ a = 1 \/ text[a - 1] = " "
        /\ b = Len(text) \/ text[b + 1] = " "

\* `word` stands in the text as a whole word, in any case
HasWord(text, word) ==
    \E a \in 1..Len(text) :
        LET b == a + Len(word) - 1 IN
        /\ b <= Len(text)
        /\ SubSeq(Fold(text), a, b) = word
        /\ a = 1 \/ ~IsRegexWordChar(text[a - 1])
        /\ b = Len(text) \/ ~IsRegexWordChar(text[b + 1])

KnownProgramOrFlag(text) ==
    \/ \E k \in 1..Len(knownInteractiveCommands) :
          FirstTokenIs(text, knownInteractiveCommands[k])
    \/ HasToken(text, << "-","i" >>)
    \/ HasToken(text, << "-","-","i","n","t","e","r","a","c","t","i","v","e" >>)

\* `inner` is `outer` without its leading and trailing whitespace
IsTrimOf(inner, outer) ==
    /\ inner # << >> => ~IsWhitespace(inner[1]) /\ ~IsWhitespace(inner[Len(inner)])
    /\ \E a \in 0..Len(outer) :
          /\ a + Len(inner) <= Len(outer)
          /\ SubSeq(outer, a + 1, a + Len(inner)) = inner
          /\ \A k \in 1..Len(outer) :
                (k <= a \/ k > a + Len(inner)) => IsWhitespace(outer[k])

\* the result of a closed child process, given the command's kind
RunnerResultFor(interactive) ==
    (settled # NoObject /\ settled.resolved) =>
        /\ settled.exitCode \in ExitCodes
        /\ settled.interactive = interactive
        /\ IF interactive
           THEN /\ childProcess.stdio = << "inherit", "inherit", "inherit" >>
                /\ childProcess.stdout = << >> /\ childProcess.stderr = << >>
                /\ settled.output = JsNull /\ settled.error = JsNull
           ELSE /\ childProcess.stdio = << "inherit", "pipe", "pipe" >>
                /\ settled.output.js = "string"
                /\ IsTrimOf(settled.output.text, childProcess.stdout)
                /\ IF settled.error = JsNull
                   THEN \A k \in 1..Len(childProcess.stderr) :
                            IsWhitespace(childProcess.stderr[k])
                   ELSE /\ settled.error.text # << >>
                        /\ IsTrimOf(settled.error.text, childProcess.stderr)

\* C26 as the specification states it: a command is interactive iff its first
\* space-separated token is a known interactive program, or one of its tokens
\* is -i or --interactive, or it contains edit/editor; an interactive command
\* gets full stdio passthrough and only the exit status is returned, every
\* other command returns its captured stdout/stderr with the exit code.
C26_InteractiveAsStated ==
    childProcess # NoObject =>
        LET interactive == \/ KnownProgramOrFlag(runnerCommand)
                           \/ Occurs(<< "e","d","i","t" >>, Fold(runnerCommand))
        IN  /\ childProcess.interactive = interactive
            /\ RunnerResultFor(interactive)

\* C26, amended: a command is interactive iff its first space-separated token
\* is a known interactive program, or one of its tokens is -i or
\* --interactive, or it contains edit or editor as a whole word in any case;
\* when its process closes an interactive command, run with all of stdio
\* inherited, returns the exit code with output and error null, and every
\* other command returns its trimmed captured stdout, its trimmed captured
\* stderr (null when empty) and the exit code.
C26_Interactive ==
    childProcess # NoObject =>
        LET interactive == \/ KnownProgramOrFlag(runnerCommand)
                           \/ HasWord(runnerCommand, << "e","d","i","t" >>)
                           \/ HasWord(runnerCommand, << "e","d","i","t","o","r" >>)
        IN  /\ childProcess.interactive = interactive
            /\ RunnerResultFor(interactive)

\* 'cat credits' contains edit inside a word: it ran with its output piped
\* and returned what it wrote
C26_Witness ==
    /\ runnerCommand = << "c","a","t"," ","c","r","e","d","i","t","s" >>
    /\ settled # NoObject
    /\ settled.resolved
    /\ ~settled.interactive
    /\ settled.output = JsString(<< "o","k" >>)

\* C27: in the single-command terminal tool, when showCommandConfirmation is
\* true the generated command is executed only after the user answers the
\* confirmation affirmatively; answering no or cancelling the prompt executes
\* nothing.
C27_ExecutesOnlyWhenConfirmed ==
    (mainPc # "none" /\ currentPreferences.showCommandConfirmation) =>
        /\ executedCommands # << >> =>
              /\ shouldConfirm = "true"
              /\ executedCommands = << generated.command >>
        /\ shouldConfirm \in { "false", "cancel" } => executedCommands = << >>
        /\ (mainPc = "done" /\ shouldConfirm = "true") => executedCommands # << >>

\* with confirmation enabled the user said yes and the command was executed
C27_Witness ==
    /\ mainPc = "done"
    /\ currentPreferences.showCommandConfirmation
    /\ shouldConfirm = "true"
    /\ executedCommands = << JsString(LsLa) >>

\* the final state of a step, read from what executeStep returned
StepSucceeded(res) == res.success /\ ~Has(res, "skipped")
StepSkipped(res) == ~res.success /\ Has(res, "skipped") /\ res.skipped
StepFailed(res) == ~res.success /\ ~Has(res, "skipped")

\* C28: a step's execution follows only the edges PENDING ->
\* NEEDS_CLARIFICATION | READY, NEEDS_CLARIFICATION -> PENDING (of the revised
\* step), READY -> EXECUTING | SKIPPED | SUCCEEDED (no command), EXECUTING ->
\* SUCCEEDED | FAILED; declining only aborts the pending command, so a step
\* whose command has been spawned never becomes SKIPPED.  PENDING is pc =
\* "executeStep", NEEDS_CLARIFICATION "askForClarification", READY
\* "confirmCommand" (or, without a command, the rest of the same call),
\* EXECUTING "executing"; executeStep has returned when pc' is "verify" or
\* "askCreateNewPlan".
C28_StepStateMachine ==
    [][ LET returns == pc' \in { "verify", "askCreateNewPlan" } IN
        /\ pc = "executeStep" =>
              \/ pc' = "askForClarification" /\ step' = step
              \/ pc' = "confirmCommand" /\ step' = step /\ TruthyText(step, "command")
              \/ /\ returns
                 /\ ~TruthyText(step, "command")
                 /\ StepSucceeded(result')
                 /\ cmdRuns' = cmdRuns
        /\ pc = "askForClarification" =>
              \/ pc' = "executeStep" /\ Has(step', "clarified") /\ depth' = depth + 1
              \/ pc' = "done" /\ ~ret'.success
        /\ pc = "confirmCommand" =>
              \/ pc' = "executing" /\ cmdRuns' = cmdRuns + 1
              \/ returns /\ StepSkipped(result') /\ cmdRuns' = cmdRuns
        /\ pc = "executing" =>
              /\ returns
              /\ StepSucceeded(result') \/ StepFailed(result')
              /\ cmdRuns' = cmdRuns
        /\ pc' = "executeStep" => pc \in { "loop", "askForClarification" }
        /\ pc' = "askForClarification" => pc = "executeStep"
        /\ pc' = "confirmCommand" => pc = "executeStep"
        /\ pc' = "executing" => pc = "confirmCommand"
      ]_vars

\* a step went through clarification, its command was spawned and failed
C28_Witness ==
    /\ pc = "askCreateNewPlan"
    /\ depth = 1
    /\ cmdRuns = 1
    /\ StepFailed(result)

\* executeStep, askForClarification, verifyStepResult, validateRemainingPlan
\* or createNewPlanAfterFailure is running
CalleeStates == ExecutorStates \cup { "verify", "verifyCompletion",
                                      "validateRemainingPlan",
                                      "createNewPlanAfterFailure" }

\* C29: only the controller mutates the plan and the list of RunRecords:
\* while executeStep (with any clarification rounds), verifyStepResult,
\* validateRemainingPlan or createNewPlanAfterFailure runs and when it
\* returns, the plan's steps and all existing RunRecords are unchanged; a
\* step revised by clarification is not written back into the plan, and the
\* RunRecord the controller then appends stores the original plan step.
C29_OnlyControllerMutates ==
    [][ /\ pc \in CalleeStates => plan' = plan
        /\ pc \in CalleeStates => (i' = i \/ (i' = i + 1 /\ pc' = "loop"))
        /\ pc \in ExecutorStates \cup { "createNewPlanAfterFailure" } =>
               results' = results
        /\ (pc \in CalleeStates /\ results' # results) =>
               /\ Len(results') = Len(results) + 1
               /\ SubSeq(results', 1, Len(results)) = results
               /\ Last(results').step = plan[i + 1]
               /\ Last(results').result = result
      ]_vars

\* the step was revised by clarification and ran; the record holds the plan's
\* step, not the revised one, and the plan still holds the original
C29_Witness ==
    /\ results # << >>
    /\ depth = 1
    /\ Has(step, "clarified")
    /\ Last(results).step # step
    /\ Last(results).step = plan[Len(results)]
    /\ Last(results).result.success
    /\ pc \in { "askContinue", "askUseUpdatedPlan" }

\* C30: a step returned by clarification is marked clarified = true and
\* re-submitted to executeStep as the model returned it, and no
\* placeholder-triggered lowering of its certainty is applied to it again:
\* with certainty >= threshold it proceeds to the confirmation prompt (or,
\* having no command, to the no-command result) without another
\* clarification round, placeholders in its command or not.
C30_ClarifiedNotDeclamped ==
    [][ /\ (pc = "askForClarification" /\ pc' = "executeStep") =>
               /\ Has(step', "clarified")
               /\ step'.clarified = TRUE
               /\ depth' = depth + 1
               /\ \E updatedStep \in ModelClarifiedSteps :
                     /\ DOMAIN step' = DOMAIN updatedStep \cup { "clarified" }
                     /\ \A k \in DOMAIN updatedStep : step'[k] = updatedStep[k]
        /\ ( /\ pc = "executeStep"
             /\ Has(step, "clarified")
             /\ Has(step, "certainty")
             /\ step.certainty >= certaintyThreshold ) =>
               /\ step' = step
               /\ depth' = depth
               /\ IF TruthyText(step, "command")
                  THEN pc' = "confirmCommand" /\ command' = step.command
                  ELSE pc' = "verify" /\ result'.success
      ]_vars

\* the revised step still has a placeholder in its command, the model is sure
\* of it, and it stands at the confirmation prompt after one round
C30_Witness ==
    /\ pc = "confirmCommand"
    /\ depth = 1
    /\ Has(step, "clarified")
    /\ step.clarified
    /\ HasPlaceholder(step)
    /\ step.certainty >= certaintyThreshold
    /\ command = step.command

\* C31: a failure of the completion call or of JSON.parse inside
\* validateRemainingPlan is absorbed as a safe default: it returns
\* needsUpdate = false with the remaining steps untouched, the current step
\* stays verified, no plan revision is proposed and the run continues with the
\* next step.  The absorbed failure is the only result without a reason.
C31_ValidationFailureAbsorbed ==
    [][ pc = "validateRemainingPlan" =>
          ( /\ Len(results') = Len(results) + 1
            /\ Has(Last(results').verification, "planValidation")
            /\ LET v == Last(results').verification IN
               ~Has(v.planValidation, "reason") =>
                  /\ v.planValidation =
                        [updatedSteps |-> SubSeq(plan, i + 2, Len(plan)),
                         needsUpdate |-> FALSE]
                  /\ v.verified
                  /\ plan' = plan
                  /\ revisions' = revisions
                  /\ pc' = "loop"
                  /\ i' = i + 1
                  /\ ret' = ret )
      ]_vars

\* the validation call failed after the first of two steps; the loop stands
\* at the second step with the plan as it was
C31_Witness ==
    /\ pc = "loop"
    /\ i = 1
    /\ Len(plan) = 2
    /\ Len(results) = 1
    /\ results[1].verification.verified
    /\ results[1].verification.planValidation =
          [updatedSteps |-> << plan[2] >>, needsUpdate |-> FALSE]

\* C32: loop invariant of the controller: at the start of every iteration for
\* index i (and at the loop's exit test) the list of RunRecords has exactly i
\* entries, and for every k < i entry k's step is the plan's step k; this
\* holds through skipped steps, dedup reuse, approved splices and adopted
\* full replans.
C32_LoopInvariant ==
    pc = "loop" =>
        /\ Len(results) = i
        /\ i <= Len(plan)
        /\ \A k \in 1..i : results[k].step = plan[k]

\* a revision of the remaining steps was proposed after the first step and
\* the loop has processed the second step of the plan it then had
C32_Witness ==
    /\ pc = "loop"
    /\ i = 2
    /\ revisions = 1
    /\ Len(results) = 2
    /\ results[1].verification.planValidation.needsUpdate
    /\ results[2].step = plan[2]

\* C33: every RunRecord with verification.verified = true has result.success
\* = true and result.skipped unset (a skipped or failed step is never recorded
\* as verified), records created by dedup reuse included; so dedup only ever
\* reuses successful results.
C33_VerifiedImpliesSuccess ==
    /\ \A k \in 1..Len(results) :
          results[k].verification.verified =>
              /\ results[k].result.success
              /\ ~Has(results[k].result, "skipped")
    /\ (pc = "loop" /\ i < Len(plan) /\ AlreadyExecutedIndex(plan[i + 1]) # 0) =>
          LET alreadyExecuted == results[AlreadyExecutedIndex(plan[i + 1])]
          IN  alreadyExecuted.result.success /\ ~Has(alreadyExecuted.result, "skipped")

\* the second record was created by dedup reuse of the first, whose command
\* ran once and was verified
C33_Witness ==
    /\ Len(results) = 2
    /\ cmdRuns = 1
    /\ stepCalls = 1
    /\ results[1].verification.verified
    /\ results[2].verification.verified
    /\ results[2].result = results[1].result
    /\ results[2].result.success

\* C34: assuming every completion call, user prompt and child process
\* returns, a run reaches a terminal state (completed, cancelled or aborted
\* with an error) provided clarification reaches certainty >= threshold in
\* finitely many rounds (at most MaxDepth here), full replans are adopted
\* finitely often (MaxReplans) and approved revisions lengthen the plan
\* finitely often (MaxRevisions); between such events the loop index
\* increases by exactly one per processed step.
C34_Terminates ==
    /\ <>(pc = "done" /\ ret # NoObject)
    /\ [][ /\ (pc' = "loop" /\ pc \notin { "confirmPlan", "askUseNewPlan" }) =>
                  i' = i + 1
           /\ (pc' = "loop" /\ pc = "askUseNewPlan") => (i' = 0 /\ replans > 0)
           /\ (pc # "loop" /\ pc' # "loop") => i' = i
           /\ pc = "done" => pc' = "done"
         ]_vars

\* a confirmed run has completed after a replan and a revision
C34_Witness ==
    /\ pc = "done"
    /\ ret.success
    /\ Has(ret, "results")
    /\ replans = MaxReplans
    /\ revisions = MaxRevisions

\* C35: if plan validation reports needsUpdate = true but the model supplies
\* no updatedSteps, the proposed remainder is the empty list, and approving it
\* removes every step after the current index, so the run completes after the
\* current step without running any further command.
C35_EmptyRevisionTruncates ==
    [][ /\ \A remaining \in StepLists(MaxSteps) :
              Len(remaining) > 0 =>
                  validateRemainingPlan(remaining,
                                        [needsUpdate |-> TRUE, reason |-> "outdated"])
                      = [updatedSteps |-> << >>, needsUpdate |-> TRUE,
                         reason |-> "outdated"]
        /\ ( /\ pc = "askUseUpdatedPlan"
             /\ verification.planValidation.updatedSteps = << >>
             /\ input' # "n" ) =>
               /\ plan' = SubSeq(plan, 1, i + 1)
               /\ i' = Len(plan')
               /\ pc' = "loop"
               /\ results' = results
               /\ cmdRuns' = cmdRuns
        /\ (pc = "loop" /\ i >= Len(plan)) =>
               /\ pc' = "done"
               /\ ret' = [success |-> TRUE, results |-> results]
               /\ cmdRuns' = cmdRuns
      ]_vars

\* a two-step plan lost its second step to an approved empty revision and the
\* run completed after the first step
C35_Witness ==
    /\ pc = "done"
    /\ Has(ret, "results")
    /\ Len(ret.results) = 1
    /\ Len(plan) = 1
    /\ stepCalls = 1
    /\ Has(ret.results[1].verification, "planValidation")
    /\ ret.results[1].verification.planValidation =
          [updatedSteps |-> << >>, needsUpdate |-> TRUE, reason |-> "outdated"]

\* C36: on a load, a stored context is deleted and treated as absent exactly
\* when more than contextTTL minutes have passed since its lastUpdated, and
\* with a contextTTL of 0 it is never cleared.
C36_AutoClearByAge ==
    [][ \A request \in Invocations :
            ( /\ invocationPc[request] = "getMessagesForAI"
              /\ invocationPc'[request] = "addInteraction"
              /\ contextFile # NoObject ) =>
                ( (contextFile' = NoObject /\ loadedContext'[request] = NoObject)
                  <=> ( /\ contextPrefs.contextTTL # 0
                        /\ clock - contextFile.lastUpdated > contextPrefs.contextTTL ) )
      ]_vars

\* C38: a command is in the shell history only when saveCommandHistory is on
\* and it was executed successfully (it was not declined, it could be spawned
\* and it exited with code 0).
C38_HistoryOnlyAfterSuccess ==
    shellHistory # << >> =>
        /\ currentPreferences.saveCommandHistory
        /\ shellHistory = << generated.command >>
        /\ executedCommands = << generated.command >>
        /\ Has(logEntries[Len(logEntries)], "result")
        /\ logEntries[Len(logEntries)].result.exitCode = 0

\* C39: the stored context holds at most maxContextEntries interactions, and
\* they are the most recently added ones, in the order they were added.
C39_MostRecentEntries ==
    contextFile # NoObject =>
        /\ Len(contextFile.context) <= contextPrefs.maxContextEntries
        /\ Len(contextFile.context) <= Len(additions)
        /\ \A k \in 1..Len(contextFile.context) :
              contextFile.context[k].userInput =
                  additions[Len(additions) - Len(contextFile.context) + k]

\* more interactions were added than the context may hold, and it is full
C39_Witness ==
    /\ contextFile # NoObject
    /\ Len(additions) > contextPrefs.maxContextEntries
    /\ Len(contextFile.context) = contextPrefs.maxContextEntries

\* C40: when the command of an invocation has finished and the context file
\* changes, the entry added for that invocation's request now records
\* executed = true and an exit code, and no other entry is modified, however
\* long the command ran and whatever other invocations added meanwhile.
C40_UpdateHitsOwnEntry ==
    [][ \A request \in Invocations :
            ( /\ invocationPc[request] = "executeCommand"
              /\ invocationPc'[request] = "done"
              /\ contextFile' # contextFile ) =>
                /\ contextFile # NoObject
                /\ contextFile' # NoObject
                /\ \E k \in 1..Len(contextFile.context) :
                      /\ contextFile.context[k].userInput = request
                      /\ contextFile'.context =
                            [contextFile.context EXCEPT ![k] = contextFile'.context[k]]
                      /\ contextFile'.context[k].userInput = request
                      /\ contextFile'.context[k].executed
                      /\ contextFile'.context[k].exitCode # JsNull
      ]_vars

\* C37: the Logger deletes a file only when logRetentionDays = n > 0, the
\* file is a .log file and its modification time is more than n days back;
\* with logRetentionDays = 0 it never deletes a log file.
C37_LogRetention ==
    [][ \A file \in logFiles \ logFiles' :
            /\ loggerPreferences.logRetentionDays > 0
            /\ file.endsWithLog
            /\ file.mtime < today - loggerPreferences.logRetentionDays
      ]_vars

=============================================================================
